---- MODULE Spec2Model ----
(***************************************************************************)
(* The bitum plugin of the politeiad cache                                  *)
(* (politeiad/cache/cockroachdb/bitum.go) and its in-memory counterpart     *)
(* (testcache): the tables of the store, the handlers behind Exec, and the  *)
(* vote tally of newVoteResults.                                            *)
(*                                                                          *)
(* A table is a bag of rows.  A handler that writes the store in several   *)
(* statements is a process whose steps are those statements; a handler of   *)
(* one write, and a handler that only reads, is one action.                 *)
(***************************************************************************)
EXTENDS Bags, FiniteSets, Integers, Sequences, TLC

VARIABLES
    records,              \* table records (written by the cache, read by the plugin)
    comments,             \* table comments
    comment_likes,        \* table comment_likes
    authorize_votes,      \* table authorize_votes
    start_votes,          \* table start_votes, each row with its vote_options
    cast_votes,           \* table cast_votes
    vote_results,         \* table vote_results
    vote_option_results,  \* table vote_option_results
    lvr,                  \* the running load-vote-results commands
    avp,                  \* the running authorize-vote commands
    nbp,                  \* the running cast-ballot commands
    mem,                  \* the maps of the in-memory implementation
    version_records,      \* table versions: the version record of the plugin
    created,              \* the tables of the plugin exist
    bld,                  \* the running Build
    tc,                   \* the lock of the in-memory implementation and its handlers
    udb,                  \* the user database adapter of politeiawww
    reply                 \* what the last handler returned to the caller of Exec

vars == <<records, comments, comment_likes, authorize_votes, start_votes,
          cast_votes, vote_results, vote_option_results, lvr, avp, nbp, mem,
          version_records, created, bld, tc, udb, reply>>

tables == <<records, comments, comment_likes, authorize_votes, start_votes,
            cast_votes, vote_results, vote_option_results>>

\* the version record, the existence of the tables and the running Build,
\* which only Setup, Build and CheckVersion touch, and what no command of the
\* plugin touches: the lock of the in-memory implementation and the user
\* database adapter
sys == <<version_records, created, bld, tc, udb>>

-----------------------------------------------------------------------------
(* Bounds of the model *)

MaxHeight == 2        \* block heights 0..MaxHeight
MaxVersion == 2       \* record versions 1..MaxVersion
MaxCast == 2          \* cast-vote rows per token
MaxTally == 3         \* copies of one cast-vote row in the tally specification
MaxEligible == 3      \* length of an eligible-ticket list
MaxLikes == 1         \* like rows of one action per comment
MaxBallot == 2        \* votes of a ballot

Tokens == {"aa", "bb"}
Heights == 0..MaxHeight

-----------------------------------------------------------------------------
(* Go's float64 arithmetic, as newVoteResults uses it:                      *)
(*   uint64(float64(pct) / 100 * float64(n))                                *)
(* A float is a mantissa of at most MantBits bits (most significant first)  *)
(* and a binary exponent: mant * 2^exp.  The empty mantissa is 0.           *)

MantBits == 53
LimbBits == 10

RECURSIVE IntBits(_)
IntBits(n) == IF n = 0 THEN <<>> ELSE IntBits(n \div 2) \o <<n % 2>>

RECURSIVE BitsToInt(_)
BitsToInt(b) ==
    IF b = <<>> THEN 0 ELSE 2 * BitsToInt(SubSeq(b, 1, Len(b) - 1)) + b[Len(b)]

RECURSIVE PowMod2(_, _)
\* 2^i mod d
PowMod2(i, d) ==
    IF i = 0 THEN 1 % d
    ELSE LET h == PowMod2(i \div 2, d)
         IN (h * h * (IF i % 2 = 1 THEN 2 ELSE 1)) % d

\* the first k binary digits of r/d after the point, for 0 <= r < d
FracBits(r, d, k) ==
    [i \in 1..k |-> IF 2 * ((r * PowMod2(i - 1, d)) % d) >= d THEN 1 ELSE 0]

LeadingZeros(b) ==
    IF \A i \in 1..Len(b) : b[i] = 0 THEN Len(b)
    ELSE (CHOOSE i \in 1..Len(b) : b[i] = 1 /\ \A j \in 1..(i - 1) : b[j] = 0) - 1

\* bits + 1 (one bit longer when every bit is 1)
IncBits(b) ==
    IF \A i \in 1..Len(b) : b[i] = 1 THEN <<1>> \o [i \in 1..Len(b) |-> 0]
    ELSE LET z == CHOOSE i \in 1..Len(b) :
                      b[i] = 0 /\ \A j \in (i + 1)..Len(b) : b[j] = 1
         IN [i \in 1..Len(b) |-> IF i < z THEN b[i] ELSE IF i = z THEN 1 ELSE 0]

\* round to nearest, ties to even, of bits * 2^exp (sticky: a nonzero rest
\* below the last bit)
RoundFloat(bits, exp, sticky) ==
    IF Len(bits) <= MantBits THEN [mant |-> bits, exp |-> exp]
    ELSE LET keep == SubSeq(bits, 1, MantBits)
             rest == SubSeq(bits, MantBits + 1, Len(bits))
             half == Head(rest) = 1
             more == sticky \/ \E i \in 2..Len(rest) : rest[i] = 1
             up   == half /\ (more \/ keep[MantBits] = 1)
             e    == exp + Len(rest)
             inc  == IncBits(keep)
         IN IF ~up THEN [mant |-> keep, exp |-> e]
            ELSE IF Len(inc) > MantBits
                 THEN [mant |-> SubSeq(inc, 1, MantBits), exp |-> e + 1]
                 ELSE [mant |-> inc, exp |-> e]

\* float64(n) / float64(d), for naturals n and d > 0
FloatDiv(n, d) ==
    IF n = 0 THEN [mant |-> <<>>, exp |-> 0]
    ELSE LET ib  == IntBits(n \div d)
             r   == n % d
             lz  == LeadingZeros(FracBits(r, d, Len(IntBits(d))))
             k   == IF ib = <<>> THEN lz + MantBits + 1 ELSE MantBits + 1
             all == ib \o FracBits(r, d, k)
             z   == LeadingZeros(all)
         IN RoundFloat(SubSeq(all, z + 1, Len(all)), 0 - k,
                       (r * PowMod2(k, d)) % d # 0)

\* the bits as limbs of LimbBits bits, least significant limb first
Limbs(bits) ==
    LET n == (Len(bits) + LimbBits - 1) \div LimbBits
    IN [j \in 1..n |->
          LET hi == Len(bits) - (j - 1) * LimbBits
              lo == IF hi - LimbBits + 1 < 1 THEN 1 ELSE hi - LimbBits + 1
          IN BitsToInt(SubSeq(bits, lo, hi))]

RECURSIVE MulLimbs(_, _, _)
\* limbs * n + carry, least significant limb first
MulLimbs(limbs, n, carry) ==
    IF limbs = <<>> THEN IF carry = 0 THEN <<>> ELSE <<carry>>
    ELSE LET t == Head(limbs) * n + carry
         IN <<t % (2 ^ LimbBits)>>
              \o MulLimbs(Tail(limbs), n, t \div (2 ^ LimbBits))

\* the bits of the limbs, most significant bit first, without leading zeros
LimbsToBits(limbs) ==
    LET n   == Len(limbs)
        all == [i \in 1..(n * LimbBits) |->
                  LET j == n - ((i - 1) \div LimbBits)
                      s == LimbBits - 1 - ((i - 1) % LimbBits)
                  IN (limbs[j] \div (2 ^ s)) % 2]
    IN SubSeq(all, LeadingZeros(all) + 1, Len(all))

\* x * float64(n), for 0 <= n < 2^20
FloatMulInt(x, n) ==
    IF n = 0 \/ x.mant = <<>> THEN [mant |-> <<>>, exp |-> 0]
    ELSE RoundFloat(LimbsToBits(MulLimbs(Limbs(x.mant), n, 0)), x.exp, FALSE)

\* uint64(x), for 0 <= x < 2^31
FloatToUint(x) ==
    IF x.mant = <<>> THEN 0
    ELSE IF x.exp >= 0 THEN BitsToInt(x.mant) * (2 ^ x.exp)
    ELSE IF Len(x.mant) + x.exp <= 0 THEN 0
    ELSE BitsToInt(SubSeq(x.mant, 1, Len(x.mant) + x.exp))

\* uint64(float64(pct) / 100 * float64(n))
PercentOf(pct, n) == FloatToUint(FloatMulInt(FloatDiv(pct, 100), n))

-----------------------------------------------------------------------------
(* Strings.  A token, a ticket, a comment id and a vote bit are TLA+        *)
(* strings; an eligible-ticket list in its stored form is the sequence of   *)
(* its pieces, the separator "," among them.                               *)

HexDigits == <<"0", "1", "2", "3", "4", "5", "6", "7", "8", "9",
               "a", "b", "c", "d", "e", "f">>

RECURSIVE FormatUint16(_)
\* strconv.FormatUint(n, 16)
FormatUint16(n) ==
    IF n < 16 THEN HexDigits[n + 1]
    ELSE FormatUint16(n \div 16) \o HexDigits[(n % 16) + 1]

DecDigits == <<"0", "1", "2", "3", "4", "5", "6", "7", "8", "9">>

RECURSIVE FormatUint10(_)
\* strconv.FormatUint(n, 10)
FormatUint10(n) ==
    IF n < 10 THEN DecDigits[n + 1]
    ELSE FormatUint10(n \div 10) \o DecDigits[(n % 10) + 1]

RECURSIVE StringsJoin(_, _)
\* strings.Join(list, sep)
StringsJoin(list, sep) ==
    IF list = <<>> THEN <<>>
    ELSE IF Len(list) = 1 THEN <<list[1]>>
    ELSE <<list[1], sep>> \o StringsJoin(Tail(list), sep)

RECURSIVE StringsSplit(_, _)
\* strings.Split(s, sep): the pieces between the separators; one (empty)
\* piece when s is empty
StringsSplit(s, sep) ==
    IF \A i \in 1..Len(s) : s[i] # sep THEN <<s>>
    ELSE LET i == CHOOSE j \in 1..Len(s) :
                      s[j] = sep /\ \A l \in 1..(j - 1) : s[l] # sep
         IN <<SubSeq(s, 1, i - 1)>> \o StringsSplit(SubSeq(s, i + 1, Len(s)), sep)

-----------------------------------------------------------------------------
(* Bags of rows *)

RECURSIVE SumOver(_, _)
\* the sum of f[x] over the set S
SumOver(S, f) ==
    IF S = {} THEN 0
    ELSE LET x == CHOOSE y \in S : TRUE IN f[x] + SumOver(S \ {x}, f)

Rows(table) == BagToSet(table)

\* the number of rows of the table among those of the set S
CountRows(table, S) ==
    SumOver(S \cap Rows(table), [r \in Rows(table) |-> CopiesIn(r, table)])

Insert(table, row) == table (+) SetToBag({row})

-----------------------------------------------------------------------------
(* Rows *)

\* the vote options of a yes/no proposal
YesNoOptions == <<[id |-> "no", bits |-> 1], [id |-> "yes", bits |-> 2]>>

voteOptionIDApproved == "yes"

\* the StartVote row of a start-vote command and its reply
convertStartVoteFromBitum(sv, svr, endHeight) ==
    [token               |-> sv.token,
     options             |-> sv.options,
     quorumPercentage    |-> sv.quorumPercentage,
     passPercentage      |-> sv.passPercentage,
     endHeight           |-> endHeight,
     eligibleTickets     |-> StringsJoin(svr.eligibleTickets, ","),
     eligibleTicketCount |-> Len(svr.eligibleTickets)]

\* the CastVote row of one vote of a ballot
convertCastVoteFromBitum(v) ==
    [token        |-> v.token,
     ticket       |-> v.ticket,
     voteBit      |-> v.voteBit,
     tokenVoteBit |-> v.token \o v.voteBit]

\* a table has a row with this value in its primary-key column
HasKey(table, col, key) == \E r \in Rows(table) : r[col] = key

\* the rows a gorm Find with a condition on one column yields
Where(table, col, val) == {r \in Rows(table) : r[col] = val}

\* what Exec returned last: the command, the error, the payload, and what the
\* handler had done by then
ReplyInfo(cmd, err, payload, info) ==
    [cmd |-> cmd, err |-> err, payload |-> payload, info |-> info]
Reply(cmd, err, payload) == ReplyInfo(cmd, err, payload, <<>>)
NoReply == Reply("none", "", "")

ErrNone == "nil"
ErrRecordNotFound == "cache.ErrRecordNotFound"
ErrStore == "store error"
ErrParse == "parse error"

-----------------------------------------------------------------------------
(* start-vote *)

\* strconv.ParseUint(s, 10, 64), -1 for a string that is no number
ParseUint10(s) ==
    IF \E n \in 0..99 : FormatUint10(n) = s
    THEN CHOOSE n \in 0..99 : FormatUint10(n) = s
    ELSE -1

\* newStartVote: db.Create(&sv); the table is left as it is when the token
\* has a row
NewStartVote(table, s) ==
    IF HasKey(table, "token", s.token) THEN table ELSE Insert(table, s)

CmdStartVote(sv, svr) ==
    LET endHeight == ParseUint10(svr.endHeight) IN
    /\ IF endHeight < 0
       THEN /\ reply' = Reply("startvote", ErrParse, "")
            /\ UNCHANGED start_votes
       ELSE LET s == convertStartVoteFromBitum(sv, svr, endHeight) IN
            IF NewStartVote(start_votes, s) = start_votes
            THEN /\ reply' = ReplyInfo("startvote", ErrStore, "", sv.token)
                 /\ UNCHANGED start_votes
            ELSE /\ start_votes' = NewStartVote(start_votes, s)
                 /\ reply' = ReplyInfo("startvote", ErrNone, svr, sv.token)
    /\ UNCHANGED <<records, comments, comment_likes, authorize_votes, cast_votes,
                   vote_results, vote_option_results, lvr, avp, nbp, mem, sys>>

-----------------------------------------------------------------------------
(* cast-ballot: cmdNewBallot, a transaction of one insert per vote *)

NbProcs == {1, 2}

NbIdle == [pc |-> "idle", ballot |-> <<>>, replyPayload |-> <<>>, n |-> 0,
           pending |-> <<>>]

\* a mutant: the insert goes to the table and not to the transaction
NewCastVoteNoTx(table, pending, cv) ==
    [table |-> Insert(table, cv), pending |-> pending]

\* newCastVote(tx, cv): tx.Create(&cv); the row joins the rows the
\* transaction holds, the table keeps its rows until the commit
NewCastVote(table, pending, cv) ==
    [table |-> table, pending |-> Append(pending, cv)]

RECURSIVE InsertAll(_, _)
InsertAll(table, rows) ==
    IF rows = <<>> THEN table ELSE InsertAll(Insert(table, Head(rows)), Tail(rows))

\* the ballot is decoded (the reply payload is not), tx := d.recordsdb.Begin()
NewBallotBegin(p, b, replyPayload) ==
    /\ nbp[p].pc = "idle"
    /\ nbp' = [nbp EXCEPT ![p] = [NbIdle EXCEPT !.pc = "tx", !.ballot = b,
                                                !.replyPayload = replyPayload]]
    /\ reply' = NoReply
    /\ UNCHANGED <<tables, lvr, avp, mem, sys>>

\* the reply of the backend to a ballot: a receipt per vote
BallotReply(b) == [receipts |-> [i \in DOMAIN b |-> "r" \o b[i].ticket]]

\* one turn of the loop: the insert of the next vote succeeds
NewBallotInsert(p) ==
    /\ nbp[p].pc = "tx"
    /\ nbp[p].n < Len(nbp[p].ballot)
    /\ LET cv  == convertCastVoteFromBitum(nbp[p].ballot[nbp[p].n + 1])
           got == NewCastVote(cast_votes, nbp[p].pending, cv)
       IN /\ cast_votes' = got.table
          /\ nbp' = [nbp EXCEPT ![p].n = @ + 1, ![p].pending = got.pending]
    /\ reply' = NoReply
    /\ UNCHANGED <<records, comments, comment_likes, authorize_votes, start_votes,
                   vote_results, vote_option_results, lvr, avp, mem, sys>>

\* one turn of the loop: the insert fails, tx.Rollback(), the error is returned
NewBallotInsertFails(p) ==
    /\ nbp[p].pc = "tx"
    /\ nbp[p].n < Len(nbp[p].ballot)
    /\ nbp' = [nbp EXCEPT ![p] = NbIdle]
    /\ reply' = ReplyInfo("ballot", ErrStore, "",
                          [proc |-> p, ballot |-> nbp[p].ballot, n |-> nbp[p].n])
    /\ UNCHANGED <<tables, lvr, avp, mem, sys>>

\* tx.Commit() succeeds: every pending row becomes visible at once
NewBallotCommit(p) ==
    /\ nbp[p].pc = "tx"
    /\ nbp[p].n = Len(nbp[p].ballot)
    /\ cast_votes' = InsertAll(cast_votes, nbp[p].pending)
    /\ nbp' = [nbp EXCEPT ![p] = NbIdle]
    /\ reply' = ReplyInfo("ballot", ErrNone, nbp[p].replyPayload,
                          [proc |-> p, ballot |-> nbp[p].ballot, n |-> nbp[p].n])
    /\ UNCHANGED <<records, comments, comment_likes, authorize_votes, start_votes,
                   vote_results, vote_option_results, lvr, avp, mem, sys>>

\* tx.Commit() fails: the store keeps nothing of the transaction
NewBallotCommitFails(p) ==
    /\ nbp[p].pc = "tx"
    /\ nbp[p].n = Len(nbp[p].ballot)
    /\ nbp' = [nbp EXCEPT ![p] = NbIdle]
    /\ reply' = ReplyInfo("ballot", ErrStore, "",
                          [proc |-> p, ballot |-> nbp[p].ballot, n |-> nbp[p].n])
    /\ UNCHANGED <<tables, lvr, avp, mem, sys>>

-----------------------------------------------------------------------------
(* newVoteResults: the tally of a finished vote *)

\* a mutant: every cast vote of the token counts for every option
VoteTallyAnyBit(cv, token, voteBit) ==
    CountRows(cv, {r \in Rows(cv) : r.token = token})

\* the loop over the cast votes of the token: tally[v.VoteBit]++
VoteTally(cv, token, voteBit) ==
    CountRows(cv, {r \in Rows(cv) : r.token = token /\ r.voteBit = voteBit})

\* the VoteOptionResult of every option of the start vote, in option order
VoteOptionResults(sv, cv) ==
    [i \in 1..Len(sv.options) |->
        LET voteBit == FormatUint16(sv.options[i].bits)
        IN [key    |-> sv.token \o voteBit,
            token  |-> sv.token,
            votes  |-> VoteTally(cv, sv.token, voteBit),
            option |-> sv.options[i]]]

RECURSIVE TotalVotes(_)
\* total += v.Votes
TotalVotes(results) ==
    IF results = <<>> THEN 0 ELSE Head(results).votes + TotalVotes(Tail(results))

RECURSIVE ApprovedVotes(_)
\* the votes of the (last) option whose id is "yes", 0 when there is none
ApprovedVotes(results) ==
    IF results = <<>> THEN 0
    ELSE IF results[Len(results)].option.id = voteOptionIDApproved
         THEN results[Len(results)].votes
         ELSE ApprovedVotes(SubSeq(results, 1, Len(results) - 1))

\* eligible := len(strings.Split(sv.EligibleTickets, ","))
Eligible(sv) == Len(StringsSplit(sv.eligibleTickets, ","))

Quorum(sv) == PercentOf(sv.quorumPercentage, Eligible(sv))

Pass(sv, total) == PercentOf(sv.passPercentage, total)

\* the switch that sets approved
Approved(sv, results) ==
    LET total == TotalVotes(results)
    IN IF total < Quorum(sv) THEN FALSE
       ELSE IF ApprovedVotes(results) < Pass(sv, total) THEN FALSE
       ELSE TRUE

RECURSIVE UpsertAll(_, _)
\* gorm saves each row of an association: the row replaces the row of its key
UpsertAll(table, rows) ==
    IF rows = <<>> THEN table
    ELSE LET r    == Head(rows)
             kept == [x \in {y \in Rows(table) : y.key # r.key} |->
                         CopiesIn(x, table)]
         IN UpsertAll(Insert(kept, r), Tail(rows))

\* a mutant: the row is inserted whatever the table holds
CreateVoteResultsAlways(vr, vor, row) ==
    [ok   |-> TRUE,
     vr   |-> Insert(vr, [token |-> row.token, approved |-> row.approved]),
     vor  |-> InsertAll(vor, row.results)]

\* d.recordsdb.Create(&VoteResults{...}): the insert of the VoteResults row
\* and of its VoteOptionResult rows, refused when the token has a row
CreateVoteResults(vr, vor, row) ==
    IF HasKey(vr, "token", row.token)
    THEN [ok |-> FALSE, vr |-> vr, vor |-> vor]
    ELSE [ok   |-> TRUE,
          vr   |-> Insert(vr, [token |-> row.token, approved |-> row.approved]),
          vor  |-> UpsertAll(vor, row.results)]

-----------------------------------------------------------------------------
(* load-vote-results: cmdLoadVoteResults, one query and one newVoteResults  *)
(* per token it returned                                                    *)

LvrProcs == {1, 2}

LvrIdle == [pc |-> "idle", bestBlock |-> 0, tokens |-> <<>>, row |-> <<>>]

\* the sequences that list every element of S once
Orderings(S) ==
    {q \in [1..Cardinality(S) -> S] : \A i, j \in 1..Cardinality(S) :
                                            i # j => q[i] # q[j]}

\* a mutant: a vote that ends at bestBlock is not selected
UnloadedTokensStrict(sv, vr, bestBlock) ==
    {r.token : r \in {x \in Rows(sv) :
                          /\ x.endHeight < bestBlock
                          /\ ~HasKey(vr, "token", x.token)}}

\* the query of cmdLoadVoteResults: the tokens of the start votes that ended
\* at or before bestBlock and have no vote_results row
UnloadedTokens(sv, vr, bestBlock) ==
    {r.token : r \in {x \in Rows(sv) :
                          /\ x.endHeight <= bestBlock
                          /\ ~HasKey(vr, "token", x.token)}}

\* the command is over: the reply goes to the caller
LoadVoteResultsDone(p, l, err) ==
    /\ lvr' = [lvr EXCEPT ![p] = LvrIdle]
    /\ reply' = ReplyInfo("loadvoteresults", err, "",
                          [proc |-> p, bestBlock |-> l.bestBlock, left |-> l.tokens])

\* the rows of the query, in the order the store returns them
LoadVoteResultsQuery(p, bestBlock) ==
    /\ lvr[p].pc = "idle"
    /\ \E order \in Orderings(UnloadedTokens(start_votes, vote_results, bestBlock)) :
          LET l == [LvrIdle EXCEPT !.pc = "loop", !.bestBlock = bestBlock,
                                   !.tokens = order]
          IN IF order = <<>>
             THEN LoadVoteResultsDone(p, l, ErrNone)
             ELSE lvr' = [lvr EXCEPT ![p] = l] /\ reply' = NoReply
    /\ UNCHANGED <<tables, avp, nbp, mem, sys>>

\* newVoteResults, up to the insert: the lookups and the tally
NewVoteResultsLookup(p) ==
    /\ lvr[p].pc = "loop"
    /\ LET token == Head(lvr[p].tokens)
           found == Where(start_votes, "token", token)
       IN IF found = {}
          THEN LoadVoteResultsDone(p, lvr[p], ErrStore)
          ELSE LET sv      == CHOOSE r \in found : TRUE
                   results == VoteOptionResults(sv, cast_votes)
               IN /\ lvr' = [lvr EXCEPT ![p].pc = "create",
                                        ![p].row = [token    |-> token,
                                                    approved |-> Approved(sv, results),
                                                    results  |-> results]]
                  /\ reply' = NoReply
    /\ UNCHANGED <<tables, avp, nbp, mem, sys>>

\* newVoteResults, the insert, and the next turn of the loop
NewVoteResultsCreate(p) ==
    /\ lvr[p].pc = "create"
    /\ LET got == CreateVoteResults(vote_results, vote_option_results, lvr[p].row)
           l   == [lvr[p] EXCEPT !.tokens = Tail(@), !.row = <<>>, !.pc = "loop"]
       IN /\ vote_results' = got.vr
          /\ vote_option_results' = got.vor
          /\ IF ~got.ok THEN LoadVoteResultsDone(p, lvr[p], ErrStore)
             ELSE IF l.tokens = <<>> THEN LoadVoteResultsDone(p, l, ErrNone)
             ELSE lvr' = [lvr EXCEPT ![p] = l] /\ reply' = NoReply
    /\ UNCHANGED <<records, comments, comment_likes, authorize_votes, start_votes,
                   cast_votes, avp, nbp, mem, sys>>

-----------------------------------------------------------------------------
(* The records table.  The cache writes it; the plugin reads it.            *)

RecordStatusPublic == "public"
RecordStatusArchived == "archived"

RecordRow(token, version, status, timestamp) ==
    [key       |-> token \o FormatUint10(version),
     token     |-> token,
     version   |-> version,
     status    |-> status,
     timestamp |-> timestamp]

\* the row of the highest version of the token: ORDER BY version DESC LIMIT 1
LatestRecord(token) ==
    LET rs == Where(records, "token", token)
    IN {r \in rs : \A o \in rs : o.version <= r.version}

\* a new record: version 1
RecordNew(token, status, timestamp) ==
    /\ Where(records, "token", token) = {}
    /\ records' = Insert(records, RecordRow(token, 1, status, timestamp))
    /\ reply' = NoReply
    /\ UNCHANGED <<comments, comment_likes, authorize_votes, start_votes,
                   cast_votes, vote_results, vote_option_results, lvr, avp, nbp,
                   mem, sys>>

\* a new version of a record
RecordUpdate(token, status, timestamp) ==
    /\ \E r \in LatestRecord(token) :
          /\ r.version < MaxVersion
          /\ records' = Insert(records,
                            RecordRow(token, r.version + 1, status, timestamp))
    /\ reply' = NoReply
    /\ UNCHANGED <<comments, comment_likes, authorize_votes, start_votes,
                   cast_votes, vote_results, vote_option_results, lvr, avp, nbp,
                   mem, sys>>

\* a new status of the latest version of a record
RecordUpdateStatus(token, status) ==
    /\ \E r \in LatestRecord(token) :
          /\ r.status # status
          /\ records' = Insert([x \in Rows(records) \ {r} |-> CopiesIn(x, records)],
                               [r EXCEPT !.status = status])
    /\ reply' = NoReply
    /\ UNCHANGED <<comments, comment_likes, authorize_votes, start_votes,
                   cast_votes, vote_results, vote_option_results, lvr, avp, nbp,
                   mem, sys>>

-----------------------------------------------------------------------------
(* authorize-vote: cmdAuthorizeVote, a transaction of a delete and an       *)
(* insert.  The store isolates transactions: a transaction works on the     *)
(* rows of its key as it found them, and its commit is refused when another *)
(* transaction has changed them since.                                      *)

AvProcs == {1, 2}

AuthVoteActionAuthorize == "authorize"
AuthVoteActionRevoke == "revoke"

AvIdle == [pc |-> "idle", row |-> <<>>, replyPayload |-> <<>>, seen |-> {},
           mine |-> EmptyBag]

\* the AuthorizeVote row of an authorize-vote command and its reply
convertAuthorizeVoteFromBitum(av, avr, version) ==
    [key       |-> av.token \o avr.recordVersion,
     token     |-> av.token,
     version   |-> version,
     action    |-> av.action,
     receipt   |-> avr.receipt]

\* a mutant: the prior row is not deleted
NewAuthorizeVoteKeep(mine, a) ==
    IF HasKey(mine, "key", a.key) THEN [ok |-> FALSE, mine |-> mine]
    ELSE [ok |-> TRUE, mine |-> Insert(mine, a)]

\* newAuthorizeVote(tx, av) on the rows of the key: the delete of the prior
\* row, then the insert of the new one
NewAuthorizeVote(mine, a) ==
    LET deleted == [x \in {y \in Rows(mine) : y.key # a.key} |-> CopiesIn(x, mine)]
    IN IF HasKey(deleted, "key", a.key) THEN [ok |-> FALSE, mine |-> deleted]
       ELSE [ok |-> TRUE, mine |-> Insert(deleted, a)]

\* a mutant: the command answers with the receipt of its row
AuthorizeVoteDoneReceipt(p, result, err, payload) ==
    /\ avp' = [avp EXCEPT ![p] = AvIdle]
    /\ reply' = ReplyInfo("authorizevote", err,
                          IF err = ErrNone THEN [receipt |-> avp[p].row.receipt]
                          ELSE payload,
                          [proc |-> p, row |-> avp[p].row, result |-> result])

\* the command is over
AuthorizeVoteDone(p, result, err, payload) ==
    /\ avp' = [avp EXCEPT ![p] = AvIdle]
    /\ reply' = ReplyInfo("authorizevote", err, payload,
                          [proc |-> p, row |-> avp[p].row, result |-> result])

\* the payloads are decoded, the version is parsed, tx := d.recordsdb.Begin()
AuthorizeVoteBegin(p, av, avr) ==
    LET v == ParseUint10(avr.recordVersion) IN
    /\ avp[p].pc = "idle"
    /\ IF v < 0
       THEN /\ avp' = avp
            /\ reply' = Reply("authorizevote", ErrParse, "")
       ELSE /\ avp' = [avp EXCEPT ![p] =
                         [AvIdle EXCEPT !.pc = "tx",
                                        !.row = convertAuthorizeVoteFromBitum(av, avr, v),
                                        !.replyPayload = avr]]
            /\ reply' = NoReply
    /\ UNCHANGED <<tables, lvr, nbp, mem, sys>>

\* newAuthorizeVote inside the transaction
AuthorizeVoteWrite(p) ==
    /\ avp[p].pc = "tx"
    /\ LET seen == Where(authorize_votes, "key", avp[p].row.key)
           got  == NewAuthorizeVote([r \in seen |-> CopiesIn(r, authorize_votes)],
                                    avp[p].row)
       IN IF got.ok
          THEN /\ avp' = [avp EXCEPT ![p].pc = "commit", ![p].seen = seen,
                                     ![p].mine = got.mine]
               /\ reply' = NoReply
          ELSE AuthorizeVoteDone(p, "dup", ErrStore, "")
    /\ UNCHANGED <<tables, lvr, nbp, mem, sys>>

\* the delete or the insert fails in the store: tx.Rollback()
AuthorizeVoteWriteFails(p) ==
    /\ avp[p].pc = "tx"
    /\ AuthorizeVoteDone(p, "fail", ErrStore, "")
    /\ UNCHANGED <<tables, lvr, nbp, mem, sys>>

\* tx.Commit(): the rows of the key become those of the transaction, unless
\* another transaction changed them in between
AuthorizeVoteCommit(p) ==
    /\ avp[p].pc = "commit"
    /\ LET key == avp[p].row.key IN
       IF Where(authorize_votes, "key", key) # avp[p].seen
       THEN /\ AuthorizeVoteDone(p, "conflict", ErrStore, "")
            /\ UNCHANGED authorize_votes
       ELSE /\ authorize_votes' =
                  [x \in {y \in Rows(authorize_votes) : y.key # key} |->
                      CopiesIn(x, authorize_votes)] (+) avp[p].mine
            /\ AuthorizeVoteDone(p, "ok", ErrNone, avp[p].replyPayload)
    /\ UNCHANGED <<records, comments, comment_likes, start_votes, cast_votes,
                   vote_results, vote_option_results, lvr, nbp, mem, sys>>

\* tx.Commit() fails in the store
AuthorizeVoteCommitFails(p) ==
    /\ avp[p].pc = "commit"
    /\ AuthorizeVoteDone(p, "fail", ErrStore, "")
    /\ UNCHANGED <<tables, lvr, nbp, mem, sys>>

-----------------------------------------------------------------------------
(* token-inventory: cmdTokenInventory *)

\* the sequences that list every row of S once, the greater r[col] first: what
\* ORDER BY ... DESC allows
OrderedDesc(S, col) ==
    {q \in Orderings(S) : \A i, j \in 1..Len(q) : i < j => q[i][col] >= q[j][col]}

TokensOf(q) == [i \in 1..Len(q) |-> q[i].token]

\* a mutant: a vote that ends at bestBlock does not count as finished
MissingVoteResultsStrict(sv, vr, bestBlock) ==
    {r.token : r \in {x \in Rows(sv) :
                          /\ x.endHeight < bestBlock
                          /\ ~HasKey(vr, "token", x.token)}}

\* the first query: the finished start votes without a vote_results row
MissingVoteResults(sv, vr, bestBlock) ==
    {r.token : r \in {x \in Rows(sv) :
                          /\ x.endHeight <= bestBlock
                          /\ ~HasKey(vr, "token", x.token)}}

\* a mutant: the status of the record is not looked at
PreRowsAnyStatus ==
    {a \in Rows(records) :
        /\ ~\E b \in Rows(records) : a.token = b.token /\ a.version < b.version
        /\ ~HasKey(start_votes, "token", a.token)}

\* the rows of the pre-vote query: the latest version of a record, public,
\* without a start vote
PreRows ==
    {a \in Rows(records) :
        /\ ~\E b \in Rows(records) : a.token = b.token /\ a.version < b.version
        /\ ~HasKey(start_votes, "token", a.token)
        /\ a.status = RecordStatusPublic}

\* the rows of the active query
ActiveRows(bestBlock) == {r \in Rows(start_votes) : r.endHeight > bestBlock}

\* the rows of the approved and of the rejected query: vote_results joined
\* with start_votes
ResultRows(approved) ==
    {x \in Rows(start_votes) :
        \E r \in Rows(vote_results) : r.token = x.token /\ r.approved = approved}

\* the rows of the abandoned query
AbandonedRows == {r \in Rows(records) : r.status = RecordStatusArchived}

\* a mutant: the first query has no condition on the end height
TokenInventoryRepliesAnyHeight(bestBlock) ==
    IF \E x \in Rows(start_votes) : ~HasKey(vote_results, "token", x.token)
    THEN {ReplyInfo("tokeninventory", ErrRecordNotFound, "",
                    [bestBlock |-> bestBlock])}
    ELSE {ReplyInfo("tokeninventory", ErrNone,
                [pre       |-> TokensOf(pre),
                 active    |-> TokensOf(active),
                 approved  |-> TokensOf(approved),
                 rejected  |-> TokensOf(rejected),
                 abandoned |-> TokensOf(abandoned)],
                [bestBlock |-> bestBlock]) :
            pre \in OrderedDesc(PreRows, "timestamp"),
            active \in OrderedDesc(ActiveRows(bestBlock), "endHeight"),
            approved \in OrderedDesc(ResultRows(TRUE), "endHeight"),
            rejected \in OrderedDesc(ResultRows(FALSE), "endHeight"),
            abandoned \in OrderedDesc(AbandonedRows, "timestamp")}

\* the replies the command may give
TokenInventoryReplies(bestBlock) ==
    IF MissingVoteResults(start_votes, vote_results, bestBlock) # {}
    THEN {ReplyInfo("tokeninventory", ErrRecordNotFound, "",
                    [bestBlock |-> bestBlock])}
    ELSE {ReplyInfo("tokeninventory", ErrNone,
                [pre       |-> TokensOf(pre),
                 active    |-> TokensOf(active),
                 approved  |-> TokensOf(approved),
                 rejected  |-> TokensOf(rejected),
                 abandoned |-> TokensOf(abandoned)],
                [bestBlock |-> bestBlock]) :
            pre \in OrderedDesc(PreRows, "timestamp"),
            active \in OrderedDesc(ActiveRows(bestBlock), "endHeight"),
            approved \in OrderedDesc(ResultRows(TRUE), "endHeight"),
            rejected \in OrderedDesc(ResultRows(FALSE), "endHeight"),
            abandoned \in OrderedDesc(AbandonedRows, "timestamp")}

CmdTokenInventory(bestBlock) ==
    /\ reply' \in TokenInventoryReplies(bestBlock)
    /\ UNCHANGED <<tables, lvr, avp, nbp, mem, sys>>

-----------------------------------------------------------------------------
(* vote-summary: cmdVoteSummary *)

\* the stored option results of a token, in an order the store may return
StoredResults(token) ==
    Orderings({r \in Rows(vote_option_results) : r.token = token})

convertVoteOptionResultsToBitum(rs) ==
    [i \in 1..Len(rs) |-> [id    |-> rs[i].option.id,
                           bits  |-> rs[i].option.bits,
                           votes |-> rs[i].votes]]

\* the votes counted from the cast_votes table, option by option
CountedResults(sv) ==
    [i \in 1..Len(sv.options) |->
        LET tokenVoteBit == sv.token \o FormatUint16(sv.options[i].bits)
        IN [id    |-> sv.options[i].id,
            bits  |-> sv.options[i].bits,
            votes |-> CountRows(cast_votes,
                                Where(cast_votes, "tokenVoteBit", tokenVoteBit))]]

VoteSummaryReply(token, authorized, endHeight, count, quorum, pass, results) ==
    ReplyInfo("votesummary", ErrNone,
          [authorized          |-> authorized,
           endHeight           |-> endHeight,
           eligibleTicketCount |-> count,
           quorumPercentage    |-> quorum,
           passPercentage      |-> pass,
           results             |-> results],
          [token |-> token])

\* a mutant: the start vote is looked up whether or not the latest version
\* of the record has an authorize vote
VoteSummaryStartVoteFirst(token) ==
    LET rs  == LatestRecord(token)
        r   == CHOOSE x \in rs : TRUE
        avs == Where(authorize_votes, "key", token \o FormatUint10(r.version))
        av  == CHOOSE x \in avs : TRUE
        svs == Where(start_votes, "token", token)
        sv  == CHOOSE x \in svs : TRUE
        authorized == avs # {} /\ av.action = AuthVoteActionAuthorize
    IN IF rs = {}
       THEN {ReplyInfo("votesummary", ErrRecordNotFound, "", [token |-> token])}
       ELSE IF svs = {}
       THEN {VoteSummaryReply(token, authorized, "", 0, 0, 0, <<>>)}
       ELSE {VoteSummaryReply(token, authorized,
                IF sv.endHeight # 0 THEN FormatUint10(sv.endHeight) ELSE "",
                sv.eligibleTicketCount, sv.quorumPercentage, sv.passPercentage,
                CountedResults(sv))}

\* a mutant: the votes are counted from cast_votes whatever is stored
VoteSummaryCounted(token) ==
    LET rs  == LatestRecord(token)
        r   == CHOOSE x \in rs : TRUE
        avs == Where(authorize_votes, "key", token \o FormatUint10(r.version))
        av  == CHOOSE x \in avs : TRUE
        svs == Where(start_votes, "token", token)
        sv  == CHOOSE x \in svs : TRUE
        authorized == av.action = AuthVoteActionAuthorize
    IN IF rs = {}
       THEN {ReplyInfo("votesummary", ErrRecordNotFound, "", [token |-> token])}
       ELSE IF avs = {}
       THEN {VoteSummaryReply(token, FALSE, "", 0, 0, 0, <<>>)}
       ELSE IF svs = {}
       THEN {VoteSummaryReply(token, authorized, "", 0, 0, 0, <<>>)}
       ELSE {VoteSummaryReply(token, authorized,
                IF sv.endHeight # 0 THEN FormatUint10(sv.endHeight) ELSE "",
                sv.eligibleTicketCount, sv.quorumPercentage, sv.passPercentage,
                CountedResults(sv))}

\* what the command may return for the token
VoteSummary(token) ==
    LET rs  == LatestRecord(token)
        r   == CHOOSE x \in rs : TRUE
        avs == Where(authorize_votes, "key", token \o FormatUint10(r.version))
        av  == CHOOSE x \in avs : TRUE
        svs == Where(start_votes, "token", token)
        sv  == CHOOSE x \in svs : TRUE
        vrs == Where(vote_results, "token", token)
        authorized == av.action = AuthVoteActionAuthorize
    IN IF rs = {}
       THEN {ReplyInfo("votesummary", ErrRecordNotFound, "", [token |-> token])}
       ELSE IF avs = {}
       THEN {VoteSummaryReply(token, FALSE, "", 0, 0, 0, <<>>)}
       ELSE IF svs = {}
       THEN {VoteSummaryReply(token, authorized, "", 0, 0, 0, <<>>)}
       ELSE {VoteSummaryReply(token, authorized,
                IF sv.endHeight # 0 THEN FormatUint10(sv.endHeight) ELSE "",
                sv.eligibleTicketCount, sv.quorumPercentage, sv.passPercentage,
                results) :
             results \in IF vrs # {}
                         THEN {convertVoteOptionResultsToBitum(q) :
                                   q \in StoredResults(token)}
                         ELSE {CountedResults(sv)}}

CmdVoteSummary(token) ==
    /\ reply' \in VoteSummary(token)
    /\ UNCHANGED <<tables, lvr, avp, nbp, mem, sys>>

-----------------------------------------------------------------------------
(* Comments: cmdNewComment, cmdLikeComment, cmdCensorComment *)

CommentIDs == {"1", "2"}

\* the Comment row of a new-comment command and its reply
convertNewCommentFromBitum(nc, ncr) ==
    [key       |-> nc.token \o ncr.commentID,
     token     |-> nc.token,
     commentID |-> ncr.commentID,
     comment   |-> nc.comment,
     censored  |-> FALSE]

\* the LikeComment row of a like-comment command
convertLikeCommentFromBitum(lc) ==
    [token     |-> lc.token,
     commentID |-> lc.commentID,
     action    |-> lc.action]

\* a mutant: the row replaces the row of its key (a Save, not a Create)
NewCommentSave(table, c) ==
    Insert([x \in {y \in Rows(table) : y.key # c.key} |-> CopiesIn(x, table)], c)

\* newComment: db.Create(&c); the table is left as it is when the key has a row
NewComment(table, c) ==
    IF HasKey(table, "key", c.key) THEN table ELSE Insert(table, c)

CmdNewComment(nc, ncr) ==
    LET c   == convertNewCommentFromBitum(nc, ncr)
        got == NewComment(comments, c)
    IN /\ comments' = got
       /\ reply' = ReplyInfo("newcomment",
                             IF HasKey(comments, "key", c.key) THEN ErrStore
                             ELSE ErrNone,
                             ncr, [key |-> c.key])
       /\ UNCHANGED <<records, comment_likes, authorize_votes, start_votes,
                      cast_votes, vote_results, vote_option_results, lvr, avp,
                      nbp, mem, sys>>

\* newLikeComment: db.Create(&lc)
NewLikeComment(table, lc) == Insert(table, lc)

CmdLikeComment(dlc, reply_payload) ==
    /\ comment_likes' = NewLikeComment(comment_likes, convertLikeCommentFromBitum(dlc))
    /\ reply' = ReplyInfo("likecomment", ErrNone, reply_payload,
                          [key |-> dlc.token \o dlc.commentID])
    /\ UNCHANGED <<records, comments, authorize_votes, start_votes, cast_votes,
                   vote_results, vote_option_results, lvr, avp, nbp, mem, sys>>

\* the table with the rows of S censored: comment = "", censored = true
CensorRows(table, S) ==
    LET Censored(r) == IF r \in S THEN [r EXCEPT !.comment = "", !.censored = TRUE]
                       ELSE r
        T == {Censored(r) : r \in Rows(table)}
    IN [t \in T |-> SumOver({r \in Rows(table) : Censored(r) = t},
                            [r \in Rows(table) |-> CopiesIn(r, table)])]

\* a mutant: the update has no condition on the key
CensorCommentAll(table, key) == CensorRows(table, Rows(table))

\* Model(&c).Updates(comment: "", censored: true), c the comment of the key
CensorComment(table, key) == CensorRows(table, Where(table, "key", key))

CmdCensorComment(cc, reply_payload) ==
    /\ comments' = CensorComment(comments, cc.token \o cc.commentID)
    /\ reply' = ReplyInfo("censorcomment", ErrNone, reply_payload,
                          [key |-> cc.token \o cc.commentID])
    /\ UNCHANGED <<records, comment_likes, authorize_votes, start_votes,
                   cast_votes, vote_results, vote_option_results, lvr, avp, nbp,
                   mem, sys>>

-----------------------------------------------------------------------------
(* The in-memory implementation: maps under one lock, each handler one step *)

MemEmpty == [authorizeVotes |-> <<>>, startVotes |-> <<>>,
             startVoteReplies |-> <<>>]

\* m[k] = v
MapPut(m, k, v) == [x \in DOMAIN m \cup {k} |-> IF x = k THEN v ELSE m[x]]

\* c.authorizeVotes[av.Token][avr.RecordVersion] = *av, the inner map made
\* when the token has none
MemPutAuthorizeVote(m, av, avr) ==
    LET inner == IF av.token \in DOMAIN m THEN m[av.token] ELSE <<>>
    IN MapPut(m, av.token, MapPut(inner, avr.recordVersion,
                [token |-> av.token, action |-> av.action,
                 receipt |-> avr.receipt]))

\* testcache.authorizeVote
MemAuthorizeVote(av, avr) ==
    /\ mem' = [mem EXCEPT !.authorizeVotes = MemPutAuthorizeVote(@, av, avr)]
    /\ reply' = ReplyInfo("mem.authorizevote", ErrNone, avr.receipt,
                          [token |-> av.token, version |-> avr.recordVersion,
                           action |-> av.action, receipt |-> avr.receipt])
    /\ UNCHANGED <<tables, lvr, avp, nbp, sys>>

-----------------------------------------------------------------------------
(* The read commands of the comments and of the votes *)

\* a payload that does not decode: the bytes are no JSON of the type
Garbage == [garbage |-> TRUE]

Decodes(payload) == "garbage" \notin DOMAIN payload

ErrDecode == "decode error"

\* cmdGetComment: Find(&c) by the key, gorm.ErrRecordNotFound when no row
GetComment(token, commentID) ==
    LET found == Where(comments, "key", token \o commentID)
        info  == [token |-> token, commentID |-> commentID]
    IN IF found = {}
       THEN {ReplyInfo("getcomment", ErrRecordNotFound, "", info)}
       ELSE {ReplyInfo("getcomment", ErrNone, [comment |-> c], info) : c \in found}

\* the rows of the table a set of rows selects, with their copies
Selected(table, S) == [r \in S \cap Rows(table) |-> CopiesIn(r, table)]

\* cmdGetComments: the comments of the token
GetComments(token) ==
    ReplyInfo("getcomments", ErrNone,
              [comments |-> Selected(comments, Where(comments, "token", token))],
              [token |-> token])

\* cmdCommentLikes: the likes of the comment
CommentLikes(token, commentID) ==
    ReplyInfo("commentlikes", ErrNone,
              [commentLikes |->
                   Selected(comment_likes,
                            {r \in Rows(comment_likes) :
                                 r.token = token /\ r.commentID = commentID})],
              [token |-> token, commentID |-> commentID])

\* cmdProposalCommentsLikes: the likes of every comment of the token
ProposalCommentsLikes(token) ==
    ReplyInfo("proposalcommentslikes", ErrNone,
              [commentsLikes |->
                   Selected(comment_likes, Where(comment_likes, "token", token))],
              [token |-> token])

\* cmdInventory: every comment of the table
Inventory ==
    ReplyInfo("inventory", ErrNone, [comments |-> comments], <<>>)

\* the zero value of an AuthorizeVote row and of a StartVote row: what a
\* Find that found no row leaves in the struct
ZeroAuthorizeVote ==
    [key |-> "", token |-> "", version |-> 0, action |-> "", receipt |-> ""]
ZeroStartVote ==
    [token |-> "", options |-> <<>>, quorumPercentage |-> 0,
     passPercentage |-> 0, endHeight |-> 0, eligibleTickets |-> <<>>,
     eligibleTicketCount |-> 0]

convertAuthorizeVoteToBitum(av) ==
    [token |-> av.token, action |-> av.action, receipt |-> av.receipt]

convertStartVoteToBitum(sv) ==
    [startVote      |-> [token            |-> sv.token,
                         options          |-> sv.options,
                         quorumPercentage |-> sv.quorumPercentage,
                         passPercentage   |-> sv.passPercentage],
     startVoteReply |-> [endHeight       |-> FormatUint10(sv.endHeight),
                         eligibleTickets |-> StringsSplit(sv.eligibleTickets, ",")]]

\* cmdVoteDetails on a payload that decoded: the latest record, then the
\* authorize vote and the start vote, each left at its zero value when the
\* lookup finds no row
VoteDetails(token) ==
    LET rs   == LatestRecord(token)
        r    == CHOOSE x \in rs : TRUE
        avs  == Where(authorize_votes, "key", token \o FormatUint10(r.version))
        svs  == Where(start_votes, "token", token)
        info == [token |-> token]
    IN IF rs = {}
       THEN {ReplyInfo("votedetails", ErrRecordNotFound, "", info)}
       ELSE {ReplyInfo("votedetails", ErrNone,
                       [authorizeVote  |-> av,
                        startVote      |-> sv.startVote,
                        startVoteReply |-> sv.startVoteReply], info) :
                av \in {convertAuthorizeVoteToBitum(x) :
                           x \in IF avs = {} THEN {ZeroAuthorizeVote} ELSE avs},
                sv \in {convertStartVoteToBitum(x) :
                           x \in IF svs = {} THEN {ZeroStartVote} ELSE svs}}

\* cmdProposalVotes: the start vote, at its zero value when the token has
\* none, and the cast votes of the token
ProposalVotes(token) ==
    LET svs == Where(start_votes, "token", token)
    IN {ReplyInfo("proposalvotes", ErrNone,
                  [startVote |-> sv,
                   castVotes |-> Selected(cast_votes,
                                          Where(cast_votes, "token", token))],
                  [token |-> token]) :
           sv \in {convertStartVoteToBitum(x).startVote :
                      x \in IF svs = {} THEN {ZeroStartVote} ELSE svs}}

-----------------------------------------------------------------------------
(* The version record and the rebuild: createTables, dropTables, build,     *)
(* Build, Setup, CheckVersion.  Build is a process: its two transactions    *)
(* and each insert of the replay are steps of their own, and the commands   *)
(* of Exec run between them.                                                *)

bitumID == "bitum"
bitumVersion == "1.1"

ErrNoVersionRecord == "cache.ErrNoVersionRecord"
ErrWrongVersion == "cache.ErrWrongVersion"
ErrNoReply == "AuthorizeVoteReply not found"
Panic == "panic"

VersionRow(v) == [id |-> bitumID, version |-> v]

\* a mutant: the table keeps its rows
DropTableKeep(table) == table

\* DropTableIfExists: the table and its rows are gone
DropTable(table) == EmptyBag

\* Delete(&Version{ID: bitumplugin.ID}): the version record of the plugin is
\* deleted
DeleteVersion(table) ==
    [r \in {x \in Rows(table) : x.id # bitumID} |-> CopiesIn(r, table)]

\* the end of createTables: the version record is made when the plugin has none
CreateVersion(table) ==
    IF HasKey(table, "id", bitumID) THEN table
    ELSE Insert(table, VersionRow(bitumVersion))

\* CheckVersion: err of the Find is "nil", gorm.ErrRecordNotFound or a
\* failure of the store; v is the row found, the zero value otherwise
CheckVersionErr(err, v) ==
    IF err = ErrRecordNotFound THEN ErrNoVersionRecord
    ELSE IF v.version # bitumVersion THEN ErrWrongVersion
    ELSE err

\* what CheckVersion returns when the store answers
CheckVersion(table) ==
    LET found == Where(table, "id", bitumID)
    IN IF found = {} THEN CheckVersionErr(ErrRecordNotFound, VersionRow(""))
       ELSE CheckVersionErr(ErrNone, CHOOSE v \in found : TRUE)

\* CheckVersion as a call: the Find answers, or fails and leaves v at its
\* zero value
CallCheckVersion(fails) ==
    /\ reply' = ReplyInfo("checkversion",
                          IF fails
                          THEN CheckVersionErr(ErrStore, [id |-> "", version |-> ""])
                          ELSE CheckVersion(version_records),
                          "",
                          [fails |-> fails,
                           found |-> {v.version : v \in Where(version_records,
                                                              "id", bitumID)}])
    /\ UNCHANGED <<tables, lvr, avp, nbp, mem, sys>>

\* Setup: createTables in a transaction; the transaction commits, or it is
\* rolled back and the error returned
Setup(fails) ==
    /\ IF fails
       THEN /\ UNCHANGED <<version_records, created>>
            /\ reply' = Reply("setup", ErrStore, "")
       ELSE /\ version_records' = CreateVersion(version_records)
            /\ created' = TRUE
            /\ reply' = Reply("setup", ErrNone, "")
    /\ UNCHANGED <<tables, lvr, avp, nbp, mem, tc, udb, bld>>

\* the rows of a snapshot, as convertCommentFromBitum and
\* convertLikeCommentFromBitum make them
convertCommentFromBitum(c) ==
    [key       |-> c.token \o c.commentID,
     token     |-> c.token,
     commentID |-> c.commentID,
     comment   |-> c.comment,
     censored  |-> c.censored]

\* the tables the replay writes
ReplayTables(c, lc, av, sv, cv) ==
    [comments |-> c, comment_likes |-> lc, authorize_votes |-> av,
     start_votes |-> sv, cast_votes |-> cv]

\* a mutant: the cast votes are replayed before the comments
ReplayOpsCastFirst(ir) ==
    [i \in DOMAIN ir.castVotes |->
         [kind |-> "cast", row |-> convertCastVoteFromBitum(ir.castVotes[i])]]
    \o [i \in DOMAIN ir.comments |->
         [kind |-> "comment", row |-> convertCommentFromBitum(ir.comments[i])]]

\* the inserts of the replay, in the order of build: one entry per turn of
\* its five loops, an entry of kind "error" where the turn returns an error
\* before its insert
ReplayOps(ir) ==
    LET avr(receipt) == {i \in DOMAIN ir.authorizeVoteReplies :
                             ir.authorizeVoteReplies[i].receipt = receipt}
        last(S) == CHOOSE i \in S : \A j \in S : j <= i
        AvOp(v) ==
            IF avr(v.receipt) = {} THEN [kind |-> "error", err |-> ErrNoReply]
            ELSE LET r  == ir.authorizeVoteReplies[last(avr(v.receipt))]
                     rv == ParseUint10(r.recordVersion)
                 IN IF rv < 0 THEN [kind |-> "error", err |-> ErrParse]
                    ELSE [kind |-> "authorize",
                          row  |-> convertAuthorizeVoteFromBitum(v, r, rv)]
        SvOp(v) ==
            LET endHeight == ParseUint10(v.startVoteReply.endHeight)
            IN IF endHeight < 0 THEN [kind |-> "error", err |-> ErrParse]
               ELSE [kind |-> "start",
                     row  |-> convertStartVoteFromBitum(v.startVote,
                                  v.startVoteReply, endHeight)]
    IN [i \in DOMAIN ir.comments |->
            [kind |-> "comment", row |-> convertCommentFromBitum(ir.comments[i])]]
       \o [i \in DOMAIN ir.likeComments |->
            [kind |-> "like", row |-> convertLikeCommentFromBitum(ir.likeComments[i])]]
       \o [i \in DOMAIN ir.authorizeVotes |-> AvOp(ir.authorizeVotes[i])]
       \o [i \in DOMAIN ir.startVoteTuples |-> SvOp(ir.startVoteTuples[i])]
       \o [i \in DOMAIN ir.castVotes |->
            [kind |-> "cast", row |-> convertCastVoteFromBitum(ir.castVotes[i])]]

\* one turn of a loop of the replay on the tables t: the tables after it, and
\* the error it returns
ReplayOne(t, op) ==
    IF op.kind = "error" THEN [err |-> op.err, t |-> t]
    ELSE IF op.kind = "comment"
    THEN LET got == NewComment(t.comments, op.row)
         IN [err |-> IF got = t.comments THEN ErrStore ELSE ErrNone,
             t   |-> [t EXCEPT !.comments = got]]
    ELSE IF op.kind = "like"
    THEN [err |-> ErrNone,
          t   |-> [t EXCEPT !.comment_likes = NewLikeComment(@, op.row)]]
    ELSE IF op.kind = "authorize"
    THEN LET got == NewAuthorizeVote(t.authorize_votes, op.row)
         IN [err |-> IF got.ok THEN ErrNone ELSE ErrStore,
             t   |-> [t EXCEPT !.authorize_votes = got.mine]]
    ELSE IF op.kind = "start"
    THEN LET got == NewStartVote(t.start_votes, op.row)
         IN [err |-> IF got = t.start_votes THEN ErrStore ELSE ErrNone,
             t   |-> [t EXCEPT !.start_votes = got]]
    ELSE LET got == NewCastVote(t.cast_votes, <<>>, op.row)
         IN [err |-> ErrNone,
             t   |-> [t EXCEPT !.cast_votes = InsertAll(got.table, got.pending)]]

BldIdle == [pc |-> "idle", ir |-> <<>>, ops |-> <<>>, n |-> 0]

\* Build returns: the error goes to the caller, with what the queries answer
\* in the cache Build leaves
BuildReturns(err, info) ==
    /\ bld' = BldIdle
    /\ reply' = ReplyInfo("build", err, "", info)

\* Build on a payload that does not decode: the error is returned at once
BuildDecodeFails ==
    /\ bld.pc = "idle"
    /\ BuildReturns(ErrDecode, [ir |-> Garbage])
    /\ UNCHANGED <<tables, lvr, avp, nbp, mem, tc, udb, version_records, created>>

\* Build on a snapshot: the payload decodes, build begins its first
\* transaction
BuildBegin(ir) ==
    /\ bld.pc = "idle"
    /\ Decodes(ir)
    /\ bld' = [pc |-> "drop", ir |-> ir, ops |-> ReplayOps(ir), n |-> 0]
    /\ UNCHANGED <<tables, lvr, avp, nbp, mem, tc, udb, version_records, created, reply>>

\* the first transaction commits: dropTables
BuildDropTables ==
    /\ bld.pc = "drop"
    /\ comments' = DropTable(comments)
    /\ comment_likes' = DropTable(comment_likes)
    /\ authorize_votes' = DropTable(authorize_votes)
    /\ start_votes' = DropTable(start_votes)
    /\ cast_votes' = DropTable(cast_votes)
    /\ vote_results' = DropTable(vote_results)
    /\ vote_option_results' = DropTable(vote_option_results)
    /\ version_records' = DeleteVersion(version_records)
    /\ created' = FALSE
    /\ bld' = [bld EXCEPT !.pc = "create"]
    /\ UNCHANGED <<records, lvr, avp, nbp, mem, tc, udb, reply>>

\* the second transaction commits: createTables
BuildCreateTables ==
    /\ bld.pc = "create"
    /\ version_records' = CreateVersion(version_records)
    /\ created' = TRUE
    /\ bld' = [bld EXCEPT !.pc = "replay"]
    /\ UNCHANGED <<tables, lvr, avp, nbp, mem, tc, udb, reply>>

\* one turn of a loop of the replay; on its error build returns and Build
\* deletes the version record
BuildReplay ==
    /\ bld.pc = "replay"
    /\ bld.n < Len(bld.ops)
    /\ LET got == ReplayOne(ReplayTables(comments, comment_likes, authorize_votes,
                                         start_votes, cast_votes),
                            bld.ops[bld.n + 1])
       IN /\ comments' = got.t.comments
          /\ comment_likes' = got.t.comment_likes
          /\ authorize_votes' = got.t.authorize_votes
          /\ start_votes' = got.t.start_votes
          /\ cast_votes' = got.t.cast_votes
          /\ IF got.err = ErrNone
             THEN /\ bld' = [bld EXCEPT !.n = @ + 1]
                  /\ UNCHANGED <<version_records, reply>>
             ELSE /\ version_records' = DeleteVersion(version_records)
                  /\ BuildReturns(got.err, [ir |-> bld.ir, n |-> bld.n])
    /\ UNCHANGED <<records, vote_results, vote_option_results, lvr, avp, nbp,
                   mem, tc, udb, created>>

\* a mutant: the error of build is returned and the version record is kept
BuildStoreFailsKeepsVersion ==
    /\ bld.pc \in {"drop", "create", "replay"}
    /\ bld.pc = "replay" => bld.n < Len(bld.ops)
    /\ BuildReturns(ErrStore, [ir |-> bld.ir, n |-> bld.n])
    /\ UNCHANGED <<tables, lvr, avp, nbp, mem, tc, udb, version_records, created>>

\* a transaction of build, or an insert of its replay, fails in the store:
\* what it did is rolled back, build returns the error and Build deletes the
\* version record
BuildStoreFails ==
    /\ bld.pc \in {"drop", "create", "replay"}
    /\ bld.pc = "replay" => bld.n < Len(bld.ops)
    /\ version_records' = DeleteVersion(version_records)
    /\ BuildReturns(ErrStore, [ir |-> bld.ir, n |-> bld.n])
    /\ UNCHANGED <<tables, lvr, avp, nbp, mem, tc, udb, created>>

\* a turn of the loop of the authorize votes: newAuthorizeVote runs on
\* d.recordsdb and not in a transaction, its delete of the prior row is done
\* and its Create fails in the store; build returns the error and Build
\* deletes the version record
BuildAuthorizeVoteFails ==
    /\ bld.pc = "replay"
    /\ bld.n < Len(bld.ops)
    /\ bld.ops[bld.n + 1].kind = "authorize"
    /\ authorize_votes' =
          [x \in {y \in Rows(authorize_votes) : y.key # bld.ops[bld.n + 1].row.key}
              |-> CopiesIn(x, authorize_votes)]
    /\ version_records' = DeleteVersion(version_records)
    /\ BuildReturns(ErrStore, [ir |-> bld.ir, n |-> bld.n])
    /\ UNCHANGED <<records, comments, comment_likes, start_votes, cast_votes,
                   vote_results, vote_option_results, lvr, avp, nbp, mem, tc, udb, created>>

\* the same, and the delete of the version record fails too: panic.  The
\* process halts with every command it was running, and is started again
BuildPanics ==
    /\ bld.pc \in {"drop", "create", "replay"}
    /\ bld.pc = "replay" => bld.n < Len(bld.ops)
    /\ bld' = BldIdle
    /\ lvr' = [p \in LvrProcs |-> LvrIdle]
    /\ avp' = [p \in AvProcs |-> AvIdle]
    /\ nbp' = [p \in NbProcs |-> NbIdle]
    /\ reply' = ReplyInfo("build", Panic, "", [ir |-> bld.ir, n |-> bld.n])
    /\ UNCHANGED <<tables, mem, tc, udb, version_records, created>>

RECURSIVE ReplayAll(_, _)
\* the loops of the replay from the tables t on, up to the first error
ReplayAll(t, ops) ==
    IF ops = <<>> THEN t
    ELSE LET got == ReplayOne(t, Head(ops))
         IN IF got.err # ErrNone THEN got.t ELSE ReplayAll(got.t, Tail(ops))

\* the tables a whole replay of the snapshot makes of empty tables
Projection(ir) ==
    ReplayAll(ReplayTables(EmptyBag, EmptyBag, EmptyBag, EmptyBag, EmptyBag),
              ReplayOps(ir))

\* what the query commands answer, command by command
QueryResults ==
    [getComments    |-> [t \in Tokens |-> GetComments(t)],
     commentLikes   |-> [t \in Tokens |-> [c \in CommentIDs |-> CommentLikes(t, c)]],
     voteDetails    |-> [t \in Tokens |-> VoteDetails(t)],
     proposalVotes  |-> [t \in Tokens |-> ProposalVotes(t)],
     voteSummary    |-> [t \in Tokens |-> VoteSummary(t)],
     inventory      |-> Inventory,
     tokenInventory |-> [h \in Heights |-> TokenInventoryReplies(h)]]

\* the replay is over: build returns nil, and so does Build
BuildDone ==
    /\ bld.pc = "replay"
    /\ bld.n = Len(bld.ops)
    /\ BuildReturns(ErrNone,
                    [ir      |-> bld.ir,
                     n       |-> bld.n,
                     again   |-> /\ reply.cmd = "build"
                                 /\ reply.err = ErrNone
                                 /\ reply.info.ir = bld.ir,
                     queries |-> QueryResults])
    /\ UNCHANGED <<tables, lvr, avp, nbp, mem, tc, udb, version_records, created>>

\* a read command of Exec, get-comments
CmdGetComments(token) ==
    /\ reply' = GetComments(token)
    /\ UNCHANGED <<tables, lvr, avp, nbp, mem, sys>>

\* a command of Exec while the tables are dropped: its first statement fails
\* in the store
ExecNoTables(cmd) ==
    /\ ~created
    /\ reply' = Reply(cmd, ErrStore, "")
    /\ UNCHANGED <<tables, lvr, avp, nbp, mem, sys>>

-----------------------------------------------------------------------------
(* The tally on its own: one start vote and its cast votes, drawn from the  *)
(* inputs below, and one load-vote-results command.                         *)

Percentages == {0, 20, 50, 60, 100}

TicketNames == <<"k1", "k2", "k3", "k4", "k5", "k6", "k7", "k8">>

EligibleLists == {SubSeq(TicketNames, 1, n) : n \in 0..MaxEligible}

\* the cast votes of a tally: c[b] rows of the vote bit b
TallyVotes(token, c) ==
    LET S == {b \in DOMAIN c : c[b] > 0}
    IN [r \in {convertCastVoteFromBitum([token |-> token, ticket |-> "k1",
                                         voteBit |-> b]) : b \in S}
          |-> c[r.voteBit]]

\* the handlers of the in-memory implementation that run side by side
TcProcs == {1, 2}

TcHandlerIdle == [pc |-> "idle", cmd |-> "", in |-> <<>>, ops |-> <<>>]

\* sync.RWMutex of testcache, free, and no handler running
TcIdle == [readers |-> {}, writer |-> 0, h |-> [p \in TcProcs |-> TcHandlerIdle]]

\* the callers of the user database adapter that run side by side
UdbProcs == {1, 2}

UdbCallIdle == [pc |-> "idle"]

\* the adapter after its construction: the lock free, the key loaded, the
\* database open, no user and no paywall address index stored
UdbIdle ==
    [readers       |-> {},
     writer        |-> 0,
     shutdown      |-> FALSE,
     encryptionKey |-> "k1",
     open          |-> TRUE,
     users         |-> <<>>,
     kv            |-> <<>>,
     call          |-> [p \in UdbProcs |-> UdbCallIdle]]

InitProcs ==
    /\ lvr = [p \in LvrProcs |-> LvrIdle]
    /\ avp = [p \in AvProcs |-> AvIdle]
    /\ nbp = [p \in NbProcs |-> NbIdle]
    /\ mem = MemEmpty
    /\ version_records = SetToBag({VersionRow(bitumVersion)})
    /\ created = TRUE
    /\ bld = BldIdle
    /\ tc = TcIdle
    /\ udb = UdbIdle
    /\ reply = NoReply

InitTally ==
    /\ records = EmptyBag
    /\ comments = EmptyBag
    /\ comment_likes = EmptyBag
    /\ authorize_votes = EmptyBag
    /\ \E q \in Percentages, pp \in Percentages, e \in EligibleLists :
          start_votes = SetToBag({convertStartVoteFromBitum(
              [token |-> "aa", options |-> YesNoOptions,
               quorumPercentage |-> q, passPercentage |-> pp],
              [eligibleTickets |-> e], 1)})
    /\ \E c \in [{"1", "2", "3"} -> 0..MaxTally] :
          cast_votes = TallyVotes("aa", c)
    /\ vote_results = EmptyBag
    /\ vote_option_results = EmptyBag
    /\ InitProcs

NextTally ==
    \/ \E h \in Heights : LoadVoteResultsQuery(1, h)
    \/ NewVoteResultsLookup(1)
    \/ NewVoteResultsCreate(1)

SpecTally == InitTally /\ [][NextTally]_vars

\* the per-option tallies stored for a token
StoredVotes(token, id) ==
    SumOver({r \in Rows(vote_option_results) :
                    r.token = token /\ r.option.id = id},
              [r \in Rows(vote_option_results) |-> r.votes])

StoredTotal(token) ==
    SumOver({r \in Rows(vote_option_results) : r.token = token},
            [r \in Rows(vote_option_results) |-> r.votes])

\* C1: a materialized yes/no vote is approved exactly when the total of the
\* stored tallies reaches floor(quorumPct/100 * eligible) and the yes votes
\* reach floor(passPct/100 * total), eligible being the number of tickets of
\* the eligible-ticket list
C1_ApprovedIffQuorumAndPass ==
    \A r \in Rows(vote_results) : \A sv \in Where(start_votes, "token", r.token) :
        LET total == StoredTotal(r.token)
            yes   == StoredVotes(r.token, voteOptionIDApproved)
        IN r.approved <=>
              /\ total >= (sv.quorumPercentage * sv.eligibleTicketCount) \div 100
              /\ yes >= (sv.passPercentage * total) \div 100

-----------------------------------------------------------------------------
(* The vote tables under concurrent commands: start-vote, cast-ballot by    *)
(* one client, load-vote-results by two.                                    *)

StartVoteCmd(token, q, pp) ==
    [token |-> token, options |-> YesNoOptions,
     quorumPercentage |-> q, passPercentage |-> pp]

StartVoteReply(e, endHeight) == [eligibleTickets |-> e, endHeight |-> endHeight]

\* the ballots of one vote
BallotsOfOne(tokens) ==
    {<<[token |-> t, ticket |-> "k1", voteBit |-> b]>> :
         t \in tokens, b \in {"1", "2"}}

\* the rows of cast_votes and those a transaction is about to add
CastCount ==
    CountRows(cast_votes, Rows(cast_votes))
        + SumOver(NbProcs, [p \in NbProcs |-> Len(nbp[p].ballot)])

InitEmpty ==
    /\ records = EmptyBag
    /\ comments = EmptyBag
    /\ comment_likes = EmptyBag
    /\ authorize_votes = EmptyBag
    /\ start_votes = EmptyBag
    /\ cast_votes = EmptyBag
    /\ vote_results = EmptyBag
    /\ vote_option_results = EmptyBag
    /\ InitProcs

Init == InitEmpty

NextBallot(p, ballots) ==
    \/ \E b \in ballots : /\ CastCount + Len(b) <= MaxCast
                           /\ NewBallotBegin(p, b, BallotReply(b))
    \/ NewBallotInsert(p)
    \/ NewBallotInsertFails(p)
    \/ NewBallotCommit(p)
    \/ NewBallotCommitFails(p)

NextLoad(p, heights) ==
    \/ \E h \in heights : LoadVoteResultsQuery(p, h)
    \/ NewVoteResultsLookup(p)
    \/ NewVoteResultsCreate(p)

Next ==
    \/ \E t \in Tokens, h \in {"1", "x"} :
          CmdStartVote(StartVoteCmd(t, 50, 50), StartVoteReply(<<"k1", "k2">>, h))
    \/ NextBallot(1, BallotsOfOne({"aa"}))
    \/ \E p \in LvrProcs : NextLoad(p, {0, 1})

Spec == Init /\ [][Next]_vars

\* C3: no token has two vote_results rows and no (token, option) has two
\* vote_option_results rows, whatever the interleaving of the loaders
C3_AtMostOneVoteResults ==
    /\ \A t \in Tokens :
          CountRows(vote_results, Where(vote_results, "token", t)) <= 1
    /\ \A r \in Rows(vote_option_results) :
          CountRows(vote_option_results,
                    {x \in Rows(vote_option_results) :
                         x.token = r.token /\ x.option = r.option}) <= 1

\* two loaders selected the same token, one stored its row and the other was
\* refused
C3_Witness ==
    /\ reply.cmd = "loadvoteresults"
    /\ reply.err = ErrStore
    /\ reply.info.left # <<>>
    /\ HasKey(vote_results, "token", Head(reply.info.left))

-----------------------------------------------------------------------------
(* One proposal from its record to its summary: the record, its             *)
(* authorization, the start of the vote, ballots, two loaders and           *)
(* vote-summary.                                                            *)

NextAuthorize(p, tokens, actions, versions, receipt) ==
    \/ \E t \in tokens, a \in actions, v \in versions :
          AuthorizeVoteBegin(p, [token |-> t, action |-> a],
                                [recordVersion |-> v, receipt |-> receipt])
    \/ AuthorizeVoteWrite(p)
    \/ AuthorizeVoteWriteFails(p)
    \/ AuthorizeVoteCommit(p)
    \/ AuthorizeVoteCommitFails(p)

NextSummary ==
    \/ RecordNew("aa", RecordStatusPublic, 1)
    \/ NextAuthorize(1, {"aa"}, {AuthVoteActionAuthorize}, {"1", "x"}, "r1")
    \/ \E h \in {"1", "x"} :
          CmdStartVote(StartVoteCmd("aa", 50, 50), StartVoteReply(<<"k1", "k2">>, h))
    \/ NextBallot(1, BallotsOfOne({"aa"}))
    \/ \E p \in LvrProcs : NextLoad(p, {0, 1})
    \/ CmdVoteSummary("aa")

SpecSummary == InitEmpty /\ [][NextSummary]_vars

\* the (option, votes) pairs of a vote-summary reply
TalliesOf(r) ==
    IF r.err # ErrNone THEN {}
    ELSE {<<r.payload.results[i].id, r.payload.results[i].votes>> :
              i \in DOMAIN r.payload.results}

\* C2: once a token has a vote_results row, no step of a load-vote-results
\* or cast-ballot command changes the row, its option rows or their tallies,
\* or the tallies vote-summary returns for the token
C2_VoteResultsNeverRecomputed ==
    [][\A t \in Tokens :
          HasKey(vote_results, "token", t) =>
             /\ {r \in Rows(vote_results') : r.token = t}
                    = {r \in Rows(vote_results) : r.token = t}
             /\ {r \in Rows(vote_option_results') : r.token = t}
                    = {r \in Rows(vote_option_results) : r.token = t}
             /\ CountRows(vote_results', {r \in Rows(vote_results') : r.token = t}) = 1
             /\ (lvr' # lvr \/ nbp' # nbp) =>
                   {TalliesOf(r) : r \in VoteSummary(t)'}
                       = {TalliesOf(r) : r \in VoteSummary(t)}
             /\ \A r \in VoteSummary(t) :
                   r.err = ErrNone /\ r.payload.results # <<>> =>
                      TalliesOf(r) = {<<x.option.id, x.votes>> :
                                          x \in Where(vote_option_results, "token", t)}]_vars

\* vote-summary answers with the stored tallies after a ballot that came
\* after the tally and a later load-vote-results command
C2_Witness ==
    /\ reply.cmd = "votesummary"
    /\ reply.err = ErrNone
    /\ HasKey(vote_results, "token", "aa")
    /\ reply.payload.results # <<>>
    /\ \E i \in DOMAIN reply.payload.results :
          reply.payload.results[i].votes
              # CountRows(cast_votes, {r \in Rows(cast_votes) : r.tokenVoteBit =
                        "aa" \o FormatUint16(reply.payload.results[i].bits)})

-----------------------------------------------------------------------------
(* The inventory: records as the backend writes them, start-vote,           *)
(* load-vote-results and token-inventory.                                   *)

RecordStatusUnvetted == "unvetted"

\* a record is new and unvetted; it is made public or archived, and a public
\* one archived; a record that is not archived gets new versions
NextRecords ==
    \/ \E t \in Tokens : RecordNew(t, RecordStatusUnvetted, 1)
    \/ \E t \in Tokens : \E r \in LatestRecord(t) :
          /\ r.status # RecordStatusArchived
          /\ RecordUpdate(t, r.status, 1)
    \/ \E t \in Tokens, st \in {RecordStatusPublic, RecordStatusArchived} :
          \E r \in LatestRecord(t) :
             /\ r.status # RecordStatusArchived
             /\ RecordUpdateStatus(t, st)

\* the vote of "aa" needs no vote to pass, that of "bb" cannot pass
NextInvStartVote ==
    \/ CmdStartVote(StartVoteCmd("aa", 0, 0), StartVoteReply(<<"k1">>, "1"))
    \/ CmdStartVote(StartVoteCmd("bb", 100, 0), StartVoteReply(<<"k1">>, "1"))

NextInv ==
    \/ NextRecords
    \/ NextInvStartVote
    \/ NextLoad(1, Heights)
    \/ \E h \in Heights : CmdTokenInventory(h)

SpecInv == InitEmpty /\ [][NextInv]_vars

\* the tokens a bucket lists
Range(q) == {q[i] : i \in DOMAIN q}

InventorySucceeded == reply.cmd = "tokeninventory" /\ reply.err = ErrNone

\* C4: token-inventory at height h answers with the not-found error and no
\* buckets exactly when a start vote that ended at or before h has no
\* vote_results row
C4_InventoryFailsWhenTallyMissing ==
    reply.cmd = "tokeninventory" =>
       LET stale == \E sv \in Rows(start_votes) :
                        /\ sv.endHeight <= reply.info.bestBlock
                        /\ ~HasKey(vote_results, "token", sv.token)
       IN IF stale THEN reply.err = ErrRecordNotFound /\ reply.payload = ""
          ELSE /\ reply.err = ErrNone
               /\ DOMAIN reply.payload
                     = {"pre", "active", "approved", "rejected", "abandoned"}

\* the inventory was refused for a vote that ends at the very height asked
C4_Witness ==
    /\ reply.cmd = "tokeninventory"
    /\ reply.err = ErrRecordNotFound
    /\ \E sv \in Rows(start_votes) :
          /\ sv.endHeight = reply.info.bestBlock
          /\ ~HasKey(vote_results, "token", sv.token)
    /\ \E sv \in Rows(start_votes) : HasKey(vote_results, "token", sv.token)

\* the five buckets of the last reply
Buckets ==
    <<reply.payload.pre, reply.payload.active, reply.payload.approved,
      reply.payload.rejected, reply.payload.abandoned>>

\* C5: when token-inventory succeeds the five buckets are pairwise disjoint
\* and no bucket lists a token twice
C5_BucketsDisjoint ==
    InventorySucceeded =>
       /\ \A i, j \in 1..5 : i # j => Range(Buckets[i]) \cap Range(Buckets[j]) = {}
       /\ \A i \in 1..5 : Cardinality(Range(Buckets[i])) = Len(Buckets[i])

\* the tokens with a record of any status or a start vote
KnownTokens ==
    {r.token : r \in Rows(records)} \cup {r.token : r \in Rows(start_votes)}

InventoryTokens == UNION {Range(Buckets[i]) : i \in 1..5}

-----------------------------------------------------------------------------
(* authorize-vote by two clients at once, and the in-memory authorize-vote  *)

AuthVoteActions == {AuthVoteActionAuthorize, AuthVoteActionRevoke}

\* the receipt of the reply tells the commands of the two clients apart
Receipts == <<"r1", "r2">>

NextAuth ==
    \/ \E p \in AvProcs :
          NextAuthorize(p, {"aa"}, AuthVoteActions, {"1", "2", "x"}, Receipts[p])
    \/ \E a \in AuthVoteActions, v \in {"1", "2"} :
          MemAuthorizeVote([token |-> "aa", action |-> a],
                           [recordVersion |-> v, receipt |-> "r1"])

SpecAuth == InitEmpty /\ [][NextAuth]_vars

\* C7: no key has two authorize_votes rows; a command that finds a row of
\* its key is not refused for it, and when a command has committed, the one
\* row of its key is the row of that command; the in-memory map holds for
\* the (token, version) of the last command the data of that command
C7_AuthorizeVoteReplaces ==
    /\ \A r \in Rows(authorize_votes) :
          CountRows(authorize_votes, Where(authorize_votes, "key", r.key)) = 1
    /\ reply.cmd = "authorizevote" /\ reply.info # <<>> =>
          /\ reply.info.result # "dup"
          /\ reply.err = ErrNone =>
                Where(authorize_votes, "key", reply.info.row.key) = {reply.info.row}
    /\ reply.cmd = "mem.authorizevote" =>
          /\ reply.info.token \in DOMAIN mem.authorizeVotes
          /\ reply.info.version \in DOMAIN mem.authorizeVotes[reply.info.token]
          /\ mem.authorizeVotes[reply.info.token][reply.info.version]
                = [token |-> reply.info.token, action |-> reply.info.action,
                   receipt |-> reply.info.receipt]

\* a command has committed over the row another command, still running, had
\* found for the same key
C7_Witness ==
    /\ reply.cmd = "authorizevote"
    /\ reply.err = ErrNone
    /\ \E q \in AvProcs :
          /\ avp[q].pc = "commit"
          /\ avp[q].row.key = reply.info.row.key
          /\ avp[q].seen # {}
          /\ avp[q].seen # {reply.info.row}
    /\ reply.info.row.token \in DOMAIN mem.authorizeVotes
    /\ \E v \in DOMAIN mem.authorizeVotes["aa"] :
          mem.authorizeVotes["aa"][v].action = AuthVoteActionRevoke

-----------------------------------------------------------------------------
(* cast-ballot by two clients at once *)

\* the ballots of up to MaxBallot votes, the i-th by the i-th ticket
Ballots ==
    UNION {{[i \in 1..n |-> [token |-> "aa", ticket |-> TicketNames[i],
                             voteBit |-> b[i]]] :
               b \in [1..n -> {"1", "2"}]} : n \in 1..MaxBallot}

NextCast ==
    \E p \in NbProcs :
       \/ \E b \in Ballots :
             CastCount + Len(b) <= MaxCast + MaxBallot
             /\ NewBallotBegin(p, b, BallotReply(b))
       \/ NewBallotInsert(p)
       \/ NewBallotInsertFails(p)
       \/ NewBallotCommit(p)
       \/ NewBallotCommitFails(p)

SpecBallot == InitEmpty /\ [][NextCast]_vars

\* the cast_votes rows of a ballot
BallotRows(b) == InsertAll(EmptyBag, [i \in 1..Len(b) |-> convertCastVoteFromBitum(b[i])])

\* C8: the cast_votes table changes only in the step in which a cast-ballot
\* command commits and returns success, and then by all the rows of its
\* ballot at once; a cast-ballot command that returns an error has added no
\* row, so no state of the table holds a part of a ballot
C8_BallotAtomic ==
    [][/\ cast_votes' # cast_votes =>
             /\ reply'.cmd = "ballot"
             /\ reply'.err = ErrNone
       /\ reply'.cmd = "ballot" =>
             IF reply'.err = ErrNone
             THEN cast_votes' = cast_votes (+) BallotRows(reply'.info.ballot)
             ELSE cast_votes' = cast_votes]_vars

\* a ballot of two votes failed after its first insert, while the table
\* holds the rows of an earlier ballot
C8_Witness ==
    /\ reply.cmd = "ballot"
    /\ reply.err = ErrStore
    /\ Len(reply.info.ballot) = 2
    /\ reply.info.n >= 1
    /\ cast_votes # EmptyBag
    /\ \E p \in NbProcs : nbp[p].pc = "tx" /\ nbp[p].n >= 1

-----------------------------------------------------------------------------
(* Comments: new-comment, like-comment and censor-comment in any order *)

LikeActions == {"1", "-1"}

\* the like rows of a comment with the given action
LikeCount(likes, token, commentID, action) ==
    CountRows(likes, {r \in Rows(likes) : r.token = token /\ r.commentID = commentID
                                  /\ r.action = action})

NextComment ==
    \/ \E t \in Tokens, id \in CommentIDs :
          CmdNewComment([token |-> t, comment |-> "text"], [commentID |-> id])
    \/ \E t \in Tokens, id \in {"1"}, a \in LikeActions :
          /\ LikeCount(comment_likes, t, id, a) < MaxLikes
          /\ CmdLikeComment([token |-> t, commentID |-> id, action |-> a], "")
    \/ \E t \in Tokens, id \in CommentIDs :
          CmdCensorComment([token |-> t, commentID |-> id], "")

SpecComment == InitEmpty /\ [][NextComment]_vars

C10_CensorIrreversible ==
    [][\A r \in Rows(comments) :
          r.censored =>
             /\ Where(comments', "key", r.key) # {}
             /\ \A x \in Where(comments', "key", r.key) :
                   x.censored /\ x.comment = ""]_vars

\* new-comment was refused for the key of a censored comment
C10_Witness ==
    /\ reply.cmd = "newcomment"
    /\ reply.err = ErrStore
    /\ \E r \in Where(comments, "key", reply.info.key) :
          r.censored /\ r.comment = ""

-----------------------------------------------------------------------------
(* The rebuild beside the commands: Setup, CheckVersion and Build on three  *)
(* snapshots and on a payload that does not decode, while a client writes   *)
(* a record, a comment and a start vote, loads the vote results and reads   *)
(* the comments.                                                            *)

SnapshotComment == [token |-> "aa", commentID |-> "1", comment |-> "c",
                    censored |-> FALSE]

EmptySnapshot ==
    [comments |-> <<>>, likeComments |-> <<>>, authorizeVotes |-> <<>>,
     authorizeVoteReplies |-> <<>>, startVoteTuples |-> <<>>, castVotes |-> <<>>]

\* a proposal with a comment, an authorized and started vote, and a cast vote
SnapshotVote ==
    [EmptySnapshot EXCEPT
        !.comments = <<SnapshotComment>>,
        !.authorizeVotes = <<[token |-> "aa", action |-> "authorize",
                              receipt |-> "r1"]>>,
        !.authorizeVoteReplies = <<[recordVersion |-> "1", receipt |-> "r1"]>>,
        !.startVoteTuples = <<[startVote      |-> StartVoteCmd("aa", 50, 50),
                               startVoteReply |-> StartVoteReply(<<"k1", "k2">>, "1")]>>,
        !.castVotes = <<[token |-> "aa", ticket |-> "k1", voteBit |-> "2"]>>]

\* a like and a cast vote
SnapshotLikes ==
    [EmptySnapshot EXCEPT
        !.likeComments = <<[token |-> "aa", commentID |-> "1", action |-> "1"]>>,
        !.castVotes = <<[token |-> "aa", ticket |-> "k1", voteBit |-> "2"]>>]

\* a comment listed twice, and an authorize vote whose reply is missing
SnapshotBroken ==
    [EmptySnapshot EXCEPT
        !.authorizeVotes = <<[token |-> "aa", action |-> "authorize",
                              receipt |-> "r1"]>>,
        !.comments = <<SnapshotComment, SnapshotComment>>]

\* a vote authorized and then revoked for the same version of the record
SnapshotRevoke ==
    [EmptySnapshot EXCEPT
        !.authorizeVotes = <<[token |-> "aa", action |-> "authorize",
                              receipt |-> "r1"],
                             [token |-> "aa", action |-> "revoke",
                              receipt |-> "r2"]>>,
        !.authorizeVoteReplies = <<[recordVersion |-> "1", receipt |-> "r1"],
                                   [recordVersion |-> "1", receipt |-> "r2"]>>]

Snapshots == {SnapshotVote, SnapshotLikes, SnapshotBroken, SnapshotRevoke}

InitBuild ==
    /\ records = EmptyBag
    /\ comments = EmptyBag
    /\ comment_likes = EmptyBag
    /\ authorize_votes = EmptyBag
    /\ start_votes = EmptyBag
    /\ cast_votes = EmptyBag
    /\ vote_results = EmptyBag
    /\ vote_option_results = EmptyBag
    /\ lvr = [p \in LvrProcs |-> LvrIdle]
    /\ avp = [p \in AvProcs |-> AvIdle]
    /\ nbp = [p \in NbProcs |-> NbIdle]
    /\ mem = MemEmpty
    /\ version_records \in {EmptyBag, SetToBag({VersionRow(bitumVersion)}),
                            SetToBag({VersionRow("1.0")})}
    /\ created = TRUE
    /\ bld = BldIdle
    /\ tc = TcIdle
    /\ udb = UdbIdle
    /\ reply = NoReply

NextRebuild ==
    \/ BuildDecodeFails
    \/ \E ir \in Snapshots : BuildBegin(ir)
    \/ BuildDropTables
    \/ BuildCreateTables
    \/ BuildReplay
    \/ BuildStoreFails
    \/ BuildAuthorizeVoteFails
    \/ BuildPanics
    \/ BuildDone

NextBuild ==
    \/ NextRebuild
    \/ \E fails \in BOOLEAN : Setup(fails)
    \/ \E fails \in BOOLEAN : CallCheckVersion(fails)
    \/ RecordNew("aa", RecordStatusPublic, 1)
    \/ created /\ CmdStartVote(StartVoteCmd("aa", 50, 50),
                               StartVoteReply(<<"k1", "k2">>, "1"))
    \/ created /\ NextLoad(1, {1})
    \/ created /\ CmdGetComments("aa")
    \/ ExecNoTables("getcomments")

SpecBuild == InitBuild /\ [][NextBuild]_vars

\* Build with no command beside it: a command begins and ends while no
\* Build runs
NextAlone ==
    \/ NextRebuild
    \/ bld.pc = "idle" /\ \E fails \in BOOLEAN : Setup(fails)
    \/ bld.pc = "idle" /\ \E fails \in BOOLEAN : CallCheckVersion(fails)
    \/ bld.pc = "idle" /\ RecordNew("aa", RecordStatusPublic, 1)
    \/ bld.pc = "idle" /\ CmdStartVote(StartVoteCmd("aa", 50, 50),
                                       StartVoteReply(<<"k1", "k2">>, "1"))
    \/ bld.pc = "idle" /\ NextLoad(1, {1})
    \/ bld.pc = "idle" /\ CmdGetComments("aa")

SpecAlone == InitBuild /\ [][NextAlone]_vars

\* C11: when Build returns nil for a snapshot right after it returned nil
\* for the same snapshot, with no other call in between, every query command
\* (get-comments, comment-likes, vote-details, proposal-votes, vote-summary,
\* inventory, token-inventory) answers what it answered after the first
\* run, whatever the cache held before the first run
C11_BuildIdempotent ==
    [][(/\ bld.pc = "replay"
        /\ reply'.cmd = "build"
        /\ reply'.err = ErrNone
        /\ reply'.info.again)
       => reply'.info.queries = reply.info.queries]_vars

\* Build has returned nil twice in a row for the snapshot of the vote, and
\* has left the start vote of the snapshot and no vote results
C11_Witness ==
    /\ reply.cmd = "build"
    /\ reply.err = ErrNone
    /\ reply.info.again
    /\ reply.info.ir = SnapshotVote
    /\ Rows(vote_results) = {}
    /\ Rows(start_votes) # {}

\* C12: whenever Build has returned an error (the payload did not decode, a
\* transaction of build failed, or a turn of the replay failed), the plugin
\* has no version record, and CheckVersion returns the no-version-record
\* error
C12_BuildErrorDeletesVersion ==
    (bld.pc = "idle" /\ reply.cmd = "build" /\ reply.err \notin {ErrNone, Panic})
        => /\ ~HasKey(version_records, "id", bitumID)
           /\ CheckVersion(version_records) = ErrNoVersionRecord

\* the cache holds the complete projection of the snapshot
CacheHolds(ir) ==
    /\ created
    /\ ReplayTables(comments, comment_likes, authorize_votes, start_votes,
                    cast_votes) = Projection(ir)

\* C13: in every state a Build can be stopped in after its first
\* transaction, a cache that does not hold the complete projection of the
\* snapshot makes CheckVersion return an error
C13_InterruptedBuildDetectable ==
    (bld.pc \in {"create", "replay"} /\ ~CacheHolds(bld.ir))
        => CheckVersion(version_records) # ErrNone

\* the tables dropTables drops
plugin_tables == <<comments, comment_likes, authorize_votes, start_votes,
                   cast_votes, vote_results, vote_option_results>>

\* C14: Build has the tables of the plugin to itself: from its first
\* transaction to its return no command of Exec takes a step, so none reads
\* the tables dropped, empty or partly replayed, and none writes them
C14_BuildExclusive ==
    [][(/\ bld.pc \in {"create", "replay"}
        /\ bld' = bld
        /\ reply'.cmd \notin {"setup", "checkversion"})
       => /\ reply' = reply
          /\ plugin_tables' = plugin_tables
          /\ lvr' = lvr]_vars

\* C19: once a token has a vote_results row, every step of a command of
\* Exec, of Setup and of Build leaves the token that row, with the same
\* approved flag, and its option rows with the same tallies
C19_VoteResultsPermanent ==
    [][\A t \in Tokens :
          HasKey(vote_results, "token", t) =>
             /\ Where(vote_results', "token", t) = Where(vote_results, "token", t)
             /\ Where(vote_option_results', "token", t)
                    = Where(vote_option_results, "token", t)]_vars

\* C20: CheckVersion returns the no-version-record error exactly when the
\* plugin has no version record, the wrong-version error exactly when its
\* record holds another version than bitumVersion, nil exactly when the
\* record holds bitumVersion; and when the read of the record fails in the
\* store it returns that failure, none of the three
C20_CheckVersionOutcomes ==
    reply.cmd = "checkversion" =>
        LET found == reply.info.found
            fails == reply.info.fails
        IN /\ reply.err = ErrNoVersionRecord <=> (~fails /\ found = {})
           /\ reply.err = ErrWrongVersion
                  <=> (~fails /\ found # {} /\ found # {bitumVersion})
           /\ reply.err = ErrNone <=> (~fails /\ found = {bitumVersion})
           /\ fails => reply.err = ErrStore

-----------------------------------------------------------------------------
(* Exec: the switch over the commands of the plugin.  A handler that is a   *)
(* process begins here and goes on with its own steps.                      *)

ErrInvalidPluginCmd == "cache.ErrInvalidPluginCmd"

\* the cases of the switch of Exec
PluginCommands ==
    {"authorizevote", "startvote", "votedetails", "ballot", "bestblock",
     "newcomment", "likecomment", "censorcomment", "getcomment", "getcomments",
     "proposalvotes", "commentlikes", "proposalcommentslikes", "inventory",
     "loadvoteresults", "tokeninventory", "votesummary"}

\* the cases of the switch of testcache.bitumExec
MemCommands == {"getcomments", "authorizevote", "startvote", "votedetails"}

\* a handler returns without a write
ExecReturns(cmd, err, payload, info) ==
    /\ reply' = ReplyInfo(cmd, err, payload, info)
    /\ UNCHANGED <<tables, lvr, avp, nbp, mem, sys>>

\* a handler returns the error of a Decode of its payloads
DecodeFails(cmd) == ExecReturns(cmd, ErrDecode, "", Garbage)

\* a read handler returns one of the replies its queries allow
ExecReads(replies) ==
    /\ reply' \in replies
    /\ UNCHANGED <<tables, lvr, avp, nbp, mem, sys>>

Exec(cmd, cmdPayload, replyPayload) ==
    \/ /\ cmd = "authorizevote"
       /\ IF Decodes(cmdPayload) /\ Decodes(replyPayload)
          THEN AuthorizeVoteBegin(1, cmdPayload, replyPayload)
          ELSE DecodeFails(cmd)
    \/ /\ cmd = "startvote"
       /\ IF Decodes(cmdPayload) /\ Decodes(replyPayload)
          THEN CmdStartVote(cmdPayload, replyPayload)
          ELSE DecodeFails(cmd)
    \/ /\ cmd = "votedetails"
       /\ IF Decodes(cmdPayload)
          THEN ExecReads(VoteDetails(cmdPayload.token))
          ELSE ExecReturns(cmd, ErrNone, "", Garbage)
    \/ /\ cmd = "ballot"
       /\ IF Decodes(cmdPayload)
          THEN NewBallotBegin(1, cmdPayload.votes, replyPayload)
          ELSE DecodeFails(cmd)
    \/ /\ cmd = "bestblock"
       /\ ExecReturns(cmd, ErrNone, "", <<>>)
    \/ /\ cmd = "newcomment"
       /\ IF Decodes(cmdPayload) /\ Decodes(replyPayload)
          THEN CmdNewComment(cmdPayload, replyPayload)
          ELSE DecodeFails(cmd)
    \/ /\ cmd = "likecomment"
       /\ IF Decodes(cmdPayload)
          THEN CmdLikeComment(cmdPayload, replyPayload)
          ELSE DecodeFails(cmd)
    \/ /\ cmd = "censorcomment"
       /\ IF Decodes(cmdPayload)
          THEN CmdCensorComment(cmdPayload, replyPayload)
          ELSE DecodeFails(cmd)
    \/ /\ cmd = "getcomment"
       /\ IF Decodes(cmdPayload)
          THEN ExecReads(GetComment(cmdPayload.token, cmdPayload.commentID))
          ELSE DecodeFails(cmd)
    \/ /\ cmd = "getcomments"
       /\ IF Decodes(cmdPayload)
          THEN CmdGetComments(cmdPayload.token)
          ELSE DecodeFails(cmd)
    \/ /\ cmd = "proposalvotes"
       /\ IF Decodes(cmdPayload)
          THEN ExecReads(ProposalVotes(cmdPayload.token))
          ELSE DecodeFails(cmd)
    \/ /\ cmd = "commentlikes"
       /\ IF Decodes(cmdPayload)
          THEN ExecReads({CommentLikes(cmdPayload.token, cmdPayload.commentID)})
          ELSE DecodeFails(cmd)
    \/ /\ cmd = "proposalcommentslikes"
       /\ IF Decodes(cmdPayload)
          THEN ExecReads({ProposalCommentsLikes(cmdPayload.token)})
          ELSE DecodeFails(cmd)
    \/ /\ cmd = "inventory"
       /\ ExecReads({Inventory})
    \/ /\ cmd = "loadvoteresults"
       /\ IF Decodes(cmdPayload)
          THEN LoadVoteResultsQuery(1, cmdPayload.bestBlock)
          ELSE DecodeFails(cmd)
    \/ /\ cmd = "tokeninventory"
       /\ IF Decodes(cmdPayload)
          THEN CmdTokenInventory(cmdPayload.bestBlock)
          ELSE DecodeFails(cmd)
    \/ /\ cmd = "votesummary"
       /\ IF Decodes(cmdPayload)
          THEN CmdVoteSummary(cmdPayload.token)
          ELSE DecodeFails(cmd)
    \/ /\ cmd \notin PluginCommands
       /\ ExecReturns(cmd, ErrInvalidPluginCmd, "", <<>>)

-----------------------------------------------------------------------------
(* The commands of Exec from one client, each with a payload that decodes   *)
(* and with payloads that do not, and a command Exec does not know.         *)

\* the payload of a command that has none
NoPayload == <<>>

ExecInput(cmd, cmdPayload, replyPayload) ==
    [cmd |-> cmd, cmdPayload |-> cmdPayload, replyPayload |-> replyPayload]

\* the payloads of a command that decode
DecodedInputs(cmd) ==
    IF cmd = "authorizevote"
    THEN {ExecInput(cmd, [token |-> "aa", action |-> AuthVoteActionAuthorize],
                    [recordVersion |-> "1", receipt |-> "r1"])}
    ELSE IF cmd = "startvote"
    THEN {ExecInput(cmd, StartVoteCmd("aa", 50, 50),
                    StartVoteReply(<<"k1", "k2">>, "1"))}
    ELSE IF cmd = "ballot"
    THEN {ExecInput(cmd, [votes |-> b], BallotReply(b)) :
             b \in {x \in BallotsOfOne({"aa"}) : CastCount + Len(x) <= MaxCast}}
    ELSE IF cmd = "newcomment"
    THEN {ExecInput(cmd, [token |-> "aa", comment |-> "text"], [commentID |-> "1"])}
    ELSE IF cmd = "likecomment"
    THEN {ExecInput(cmd, [token |-> "aa", commentID |-> "1", action |-> "1"], rp) :
             rp \in IF LikeCount(comment_likes, "aa", "1", "1") < MaxLikes
                    THEN {[total |-> 1], Garbage} ELSE {}}
    ELSE IF cmd = "censorcomment"
    THEN {ExecInput(cmd, [token |-> "aa", commentID |-> "1"], [receipt |-> "r2"])}
    ELSE IF cmd \in {"getcomment", "commentlikes"}
    THEN {ExecInput(cmd, [token |-> "aa", commentID |-> "1"], NoPayload)}
    ELSE IF cmd \in {"loadvoteresults", "tokeninventory"}
    THEN {ExecInput(cmd, [bestBlock |-> 1], NoPayload)}
    ELSE IF cmd \in {"bestblock", "inventory"}
    THEN {ExecInput(cmd, NoPayload, NoPayload)}
    ELSE {ExecInput(cmd, [token |-> "aa"], NoPayload)}

\* the calls of Exec: the commands of the switch with payloads that decode,
\* with a command payload that does not, with a reply payload that does not,
\* and a command that is none of the switch
ExecInputs ==
    UNION {DecodedInputs(cmd) : cmd \in PluginCommands}
    \cup {ExecInput(cmd, Garbage, NoPayload) : cmd \in PluginCommands \cup {"bogus"}}
    \cup {ExecInput(i.cmd, i.cmdPayload, Garbage) :
             i \in UNION {DecodedInputs(cmd) :
                             cmd \in {"authorizevote", "startvote", "newcomment"}}}

NextExec ==
    \/ \E i \in ExecInputs : Exec(i.cmd, i.cmdPayload, i.replyPayload)
    \/ RecordNew("aa", RecordStatusPublic, 1)
    \/ AuthorizeVoteWrite(1)
    \/ AuthorizeVoteWriteFails(1)
    \/ AuthorizeVoteCommit(1)
    \/ AuthorizeVoteCommitFails(1)
    \/ NewBallotInsert(1)
    \/ NewBallotInsertFails(1)
    \/ NewBallotCommit(1)
    \/ NewBallotCommitFails(1)
    \/ NewVoteResultsLookup(1)
    \/ NewVoteResultsCreate(1)

SpecExec == InitEmpty /\ [][NextExec]_vars

\* the value is a payload that did not decode
IsGarbage(x) == ToString(x) = ToString(Garbage)

\* C16: a command of Exec whose command payload, or whose reply payload if
\* it is a write, does not decode returns an error that is not nil and
\* leaves the tables and the running commands as they are
C16_DecodeFailureIsError ==
    [][(IsGarbage(reply'.info) \/ IsGarbage(reply'.payload))
       => /\ reply'.err # ErrNone
          /\ tables' = tables
          /\ <<lvr', avp', nbp'>> = <<lvr, avp, nbp>>]_vars

\* C17: get-comment for a comment the cache does not hold, and
\* vote-details, proposal-votes and vote-summary for a token that has no
\* record or no start vote, return the not-found error
C17_MissingDataNotFound ==
    /\ (/\ reply.cmd = "getcomment"
        /\ ~IsGarbage(reply.info)
        /\ Where(comments, "key", reply.info.token \o reply.info.commentID) = {})
           => reply.err = ErrRecordNotFound
    /\ (/\ reply.cmd \in {"votedetails", "proposalvotes", "votesummary"}
        /\ ~IsGarbage(reply.info)
        /\ \/ LatestRecord(reply.info.token) = {}
           \/ Where(start_votes, "token", reply.info.token) = {})
           => reply.err = ErrRecordNotFound

-----------------------------------------------------------------------------
(* testcache.bitumExec: the switch of the in-memory implementation, and     *)
(* its handlers beside authorizeVote                                        *)

\* testcache.startVote: c.startVotes[token] = *sv and
\* c.startVoteReplies[token] = *svr, whatever the maps held
MemStartVote(sv, svr) ==
    /\ mem' = [mem EXCEPT !.startVotes = MapPut(@, sv.token, sv),
                          !.startVoteReplies = MapPut(@, sv.token, svr)]
    /\ reply' = ReplyInfo("mem.startvote", ErrNone, svr, [token |-> sv.token])
    /\ UNCHANGED <<tables, lvr, avp, nbp, sys>>

\* m[k], the zero value when the map has no k
MapGet(m, k, zero) == IF k \in DOMAIN m THEN m[k] ELSE zero

\* testcache.voteDetails: the latest record of the token, the inner map of
\* its authorize votes made when it has none, and the reply from the maps
MemVoteDetails(token) ==
    LET rs == LatestRecord(token)
        r  == CHOOSE x \in rs : TRUE
    IN IF rs = {}
       THEN /\ reply' = ReplyInfo("mem.votedetails", ErrRecordNotFound, "",
                                  [token |-> token])
            /\ UNCHANGED <<tables, lvr, avp, nbp, mem, sys>>
       ELSE /\ mem' = [mem EXCEPT !.authorizeVotes =
                          IF token \in DOMAIN @ THEN @ ELSE MapPut(@, token, <<>>)]
            /\ reply' = ReplyInfo("mem.votedetails", ErrNone,
                  [authorizeVote  |->
                       MapGet(MapGet(mem.authorizeVotes, token, <<>>),
                              FormatUint10(r.version),
                              convertAuthorizeVoteToBitum(ZeroAuthorizeVote)),
                   startVote      |->
                       MapGet(mem.startVotes, token,
                              convertStartVoteToBitum(ZeroStartVote).startVote),
                   startVoteReply |->
                       MapGet(mem.startVoteReplies, token, StartVoteReply(<<>>, ""))],
                  [token |-> token])
            /\ UNCHANGED <<tables, lvr, avp, nbp, sys>>

\* testcache.getComments: the comments of the token in c.comments, a map no
\* command of the plugin writes
MemGetComments(token) ==
    /\ reply' = ReplyInfo("mem.getcomments", ErrNone, [comments |-> <<>>],
                          [token |-> token])
    /\ UNCHANGED <<tables, lvr, avp, nbp, mem, sys>>

MemExec(cmd, cmdPayload, replyPayload) ==
    \/ /\ cmd = "getcomments"
       /\ IF Decodes(cmdPayload)
          THEN MemGetComments(cmdPayload.token)
          ELSE DecodeFails("mem." \o cmd)
    \/ /\ cmd = "authorizevote"
       /\ IF Decodes(cmdPayload) /\ Decodes(replyPayload)
          THEN MemAuthorizeVote(cmdPayload, replyPayload)
          ELSE DecodeFails("mem." \o cmd)
    \/ /\ cmd = "startvote"
       /\ IF Decodes(cmdPayload) /\ Decodes(replyPayload)
          THEN MemStartVote(cmdPayload, replyPayload)
          ELSE DecodeFails("mem." \o cmd)
    \/ /\ cmd = "votedetails"
       /\ IF Decodes(cmdPayload)
          THEN MemVoteDetails(cmdPayload.token)
          ELSE DecodeFails("mem." \o cmd)
    \/ /\ cmd \notin MemCommands
       /\ ExecReturns("mem." \o cmd, ErrInvalidPluginCmd, "", <<>>)

-----------------------------------------------------------------------------
(* The two implementations side by side: every command name to bitumExec,   *)
(* start-vote with two thresholds to both, an unknown command to both.      *)

\* the start-vote commands of one token
StartVoteInputs ==
    {ExecInput("startvote", StartVoteCmd("aa", q, 50),
               StartVoteReply(<<"k1", "k2">>, "1")) : q \in {50, 60}}

MemInputs ==
    StartVoteInputs
    \cup (UNION {DecodedInputs(cmd) : cmd \in PluginCommands \ {"startvote"}})
    \cup {ExecInput(cmd, Garbage, NoPayload) : cmd \in MemCommands \cup {"bogus"}}

\* the calls of Exec next to them: the start votes, and every command of the
\* switch and one that is none of it with a command payload that does not
\* decode (the handlers without a payload run as they always do)
StoreInputs ==
    StartVoteInputs
    \cup {ExecInput(cmd, Garbage, NoPayload) : cmd \in PluginCommands \cup {"bogus"}}

NextMem ==
    \/ \E i \in MemInputs : MemExec(i.cmd, i.cmdPayload, i.replyPayload)
    \/ \E i \in StoreInputs : Exec(i.cmd, i.cmdPayload, i.replyPayload)
    \/ RecordNew("aa", RecordStatusPublic, 1)

SpecMem == InitEmpty /\ [][NextMem]_vars

\* C15: Exec and bitumExec answer a command that is none of theirs with the
\* invalid-plugin-command error and an empty payload and change nothing, and
\* answer no command of the command set (the switch of Exec but best-block)
\* with that error
C15_InvalidCommandOnlyWhenUnknown ==
    [][/\ reply'.err = ErrInvalidPluginCmd =>
             /\ reply'.payload = ""
             /\ tables' = tables
             /\ mem' = mem
             /\ <<lvr', avp', nbp'>> = <<lvr, avp, nbp>>
       /\ reply'.cmd \in {"bogus", "mem.bogus"} => reply'.err = ErrInvalidPluginCmd
       /\ \A cmd \in PluginCommands \ {"bestblock"} :
             reply'.cmd \in {cmd, "mem." \o cmd} => reply'.err # ErrInvalidPluginCmd]_vars

\* C18: a start vote a token has is never changed: each step leaves the row
\* of start_votes the token has, and the start vote and reply the maps of
\* the in-memory implementation hold for it
C18_StartVoteImmutable ==
    [][/\ \A t \in Tokens :
             HasKey(start_votes, "token", t) =>
                Where(start_votes', "token", t) = Where(start_votes, "token", t)
       /\ \A t \in DOMAIN mem.startVotes :
             /\ t \in DOMAIN mem'.startVotes
             /\ mem'.startVotes[t] = mem.startVotes[t]
             /\ mem'.startVoteReplies[t] = mem.startVoteReplies[t]]_vars

-----------------------------------------------------------------------------
(* The version guard and the commands of Exec *)

\* C21: while CheckVersion would return an error and no Build runs, a step
\* of a command of Exec writes no table of the plugin and returns no reply
\* without an error
C21_NoServiceOnWrongVersion ==
    [][(/\ CheckVersion(version_records) # ErrNone
        /\ bld.pc = "idle"
        /\ bld'.pc = "idle"
        /\ reply'.cmd \notin {"build", "setup", "checkversion"})
       => /\ plugin_tables' = plugin_tables
          /\ reply'.cmd # "none" => reply'.err # ErrNone]_vars

-----------------------------------------------------------------------------
(* The write commands of Exec: what they return and what they store *)

WriteCommands == {"newcomment", "likecomment", "censorcomment", "authorizevote",
                  "startvote", "ballot"}

\* the calls of Exec with a write command, and with any command and a
\* command payload that does not decode
WriteExecInputs ==
    {i \in ExecInputs : i.cmd \in WriteCommands \/ ~Decodes(i.cmdPayload)}

NextWrite ==
    \/ \E i \in WriteExecInputs : Exec(i.cmd, i.cmdPayload, i.replyPayload)
    \/ AuthorizeVoteWrite(1)
    \/ AuthorizeVoteWriteFails(1)
    \/ AuthorizeVoteCommit(1)
    \/ AuthorizeVoteCommitFails(1)
    \/ NewBallotInsert(1)
    \/ NewBallotInsertFails(1)
    \/ NewBallotCommit(1)
    \/ NewBallotCommitFails(1)

SpecWrite == InitEmpty /\ [][NextWrite]_vars

\* the write commands that are one statement in the store
WriteInputs ==
    {i \in WriteExecInputs :
        i.cmd \in {"newcomment", "likecomment", "censorcomment", "startvote"}}

\* C22: a write command that succeeds returns the reply payload it was
\* given, and the table it writes becomes what the table was and the rows
\* made of its two payloads: the comment, the like, the censored comment of
\* the key, the start vote, the authorize vote in the place of the one of its
\* key, the cast votes of the ballot; no other table changes
C22_WriteEchoesReply ==
    [][/\ \A i \in WriteInputs :
             (/\ reply'.cmd = i.cmd
              /\ reply'.err = ErrNone
              /\ Exec(i.cmd, i.cmdPayload, i.replyPayload))
             => /\ reply'.payload = i.replyPayload
                /\ comments' =
                      IF i.cmd = "newcomment"
                      THEN Insert(comments,
                                  convertNewCommentFromBitum(i.cmdPayload,
                                                             i.replyPayload))
                      ELSE IF i.cmd = "censorcomment"
                      THEN CensorRows(comments,
                               {c \in Rows(comments) :
                                   c.key = i.cmdPayload.token
                                               \o i.cmdPayload.commentID})
                      ELSE comments
                /\ comment_likes' =
                      IF i.cmd = "likecomment"
                      THEN Insert(comment_likes,
                                  convertLikeCommentFromBitum(i.cmdPayload))
                      ELSE comment_likes
                /\ start_votes' =
                      IF i.cmd = "startvote"
                      THEN Insert(start_votes,
                               convertStartVoteFromBitum(i.cmdPayload, i.replyPayload,
                                   ParseUint10(i.replyPayload.endHeight)))
                      ELSE start_votes
                /\ UNCHANGED <<records, authorize_votes, cast_votes, vote_results,
                               vote_option_results>>
       /\ (reply'.cmd = "authorizevote" /\ reply'.err = ErrNone)
             => LET p   == reply'.info.proc
                    avr == avp[p].replyPayload
                    av  == [token |-> avp[p].row.token, action |-> avp[p].row.action]
                    a   == convertAuthorizeVoteFromBitum(av, avr,
                                                         ParseUint10(avr.recordVersion))
                IN /\ reply'.payload = avr
                   /\ Rows(authorize_votes')
                         = {r \in Rows(authorize_votes) : r.key # a.key} \cup {a}
                   /\ CopiesIn(a, authorize_votes') = 1
                   /\ UNCHANGED <<records, comments, comment_likes, start_votes,
                                  cast_votes, vote_results, vote_option_results>>
       /\ (reply'.cmd = "ballot" /\ reply'.err = ErrNone)
             => LET p == reply'.info.proc
                    b == nbp[p].ballot
                IN /\ reply'.payload = nbp[p].replyPayload
                   /\ cast_votes' =
                         InsertAll(cast_votes,
                                   [k \in DOMAIN b |-> convertCastVoteFromBitum(b[k])])
                   /\ UNCHANGED <<records, comments, comment_likes, authorize_votes,
                                  start_votes, vote_results, vote_option_results>>]_vars

\* a like-comment has returned the reply payload it could not have decoded,
\* with its like stored, after an authorize vote and a ballot were stored
C22_Witness ==
    /\ reply.cmd = "likecomment"
    /\ reply.err = ErrNone
    /\ IsGarbage(reply.payload)
    /\ Rows(comment_likes) # {}
    /\ Rows(authorize_votes) # {}
    /\ Rows(cast_votes) # {}

-----------------------------------------------------------------------------
(* The query commands *)

QueryCommands == {"getcomment", "getcomments", "commentlikes",
                  "proposalcommentslikes", "votedetails", "proposalvotes",
                  "inventory", "tokeninventory", "votesummary"}

\* C23: a step of a query command, of Exec or of bitumExec, leaves every
\* table of the store and every map of the in-memory implementation as it
\* was
C23_QueriesReadOnly ==
    [][(\E cmd \in QueryCommands : reply'.cmd \in {cmd, "mem." \o cmd})
       => /\ records' = records
          /\ plugin_tables' = plugin_tables
          /\ mem' = mem]_vars

-----------------------------------------------------------------------------
(* authorize-vote that fails, as a command and as a turn of the replay *)

\* C24: an authorize-vote that returns an error leaves the table of the
\* authorize votes as it was, the prior row of its key with it: the command
\* of Exec, and the turn of the replay of Build that returns the error of
\* newAuthorizeVote
C24_FailedAuthorizeVoteNoEffect ==
    [][/\ (reply'.cmd = "authorizevote" /\ reply'.err # ErrNone)
             => authorize_votes' = authorize_votes
       /\ (/\ bld.pc = "replay"
           /\ bld.n < Len(bld.ops)
           /\ bld.ops[bld.n + 1].kind = "authorize"
           /\ reply'.cmd = "build"
           /\ reply'.err = ErrStore)
             => authorize_votes' = authorize_votes]_vars

-----------------------------------------------------------------------------
(* One client, one command at a time: records, start votes that end at two  *)
(* heights, a ballot, load-vote-results and token-inventory at every height *)

\* no command of the client is running
NoCommand == lvr[1].pc = "idle" /\ nbp[1].pc = "idle"

NextOne ==
    \/ NoCommand /\ \E t \in Tokens : RecordNew(t, RecordStatusPublic, 1)
    \/ NoCommand /\ \E t \in Tokens, e \in {"1", "2"} :
                       CmdStartVote(StartVoteCmd(t, 50, 50),
                                    StartVoteReply(<<"k1", "k2">>, e))
    \/ NoCommand /\ \E h \in Heights : CmdTokenInventory(h)
    \/ NoCommand /\ \E b \in BallotsOfOne({"aa"}) :
                       /\ CastCount + Len(b) <= MaxCast
                       /\ NewBallotBegin(1, b, BallotReply(b))
    \/ NewBallotInsert(1)
    \/ NewBallotCommit(1)
    \/ NoCommand /\ \E h \in Heights : LoadVoteResultsQuery(1, h)
    \/ NewVoteResultsLookup(1)
    \/ NewVoteResultsCreate(1)

SpecOne == InitEmpty /\ [][NextOne]_vars

\* every start vote that ended at or before h has a vote_results row
Loaded(sv, vr, h) ==
    \A s \in Rows(sv) : s.endHeight <= h => HasKey(vr, "token", s.token)

\* C25: when load-vote-results with the height h returns nil, every start
\* vote with an end height at or before h has a vote_results row, one that
\* ends at h among them; and a step that gives a token its vote_results row
\* is the step of a load-vote-results whose height the end height of the
\* token's start vote does not exceed
C25_LoadVoteResultsUpToHeight ==
    [][/\ (reply'.cmd = "loadvoteresults" /\ reply'.err = ErrNone)
             => Loaded(start_votes', vote_results', reply'.info.bestBlock)
       /\ \A t \in Tokens :
             (~HasKey(vote_results, "token", t) /\ HasKey(vote_results', "token", t))
             => /\ lvr[1].pc = "create"
                /\ \E s \in Where(start_votes, "token", t) :
                      s.endHeight <= lvr[1].bestBlock]_vars

\* load-vote-results at height 1 has returned nil: the vote that ended at 1
\* has its row, the vote that ends at 2 has none
C25_Witness ==
    /\ reply.cmd = "loadvoteresults"
    /\ reply.err = ErrNone
    /\ reply.info.bestBlock = 1
    /\ \E s \in Rows(start_votes) :
          s.endHeight = 1 /\ HasKey(vote_results, "token", s.token)
    /\ \E s \in Rows(start_votes) :
          s.endHeight = 2 /\ ~HasKey(vote_results, "token", s.token)

-----------------------------------------------------------------------------
(* Two load-vote-results commands on the same finished vote *)

\* C26: a load-vote-results command that finds the vote_results row of a
\* token it selected already stored by the other command returns no error to
\* its caller, and goes on to the tokens left in its list: in the two-loader
\* specification, where no statement fails in the store, no
\* load-vote-results command returns an error
C26_LosingLoaderBenign ==
    reply.cmd = "loadvoteresults" => reply.err = ErrNone

\* C27: a load-vote-results with the height h that returns nil leaves every
\* start vote that ended at or before h with its vote_results row; a step of
\* any command but start-vote keeps it so (no Build runs here); and while it
\* is so, token-inventory with a height at or below h does not return the
\* record-not-found error
C27_InventoryAfterLoad ==
    [][\A h \in Heights :
          /\ (/\ reply'.cmd = "loadvoteresults"
              /\ reply'.err = ErrNone
              /\ reply'.info.bestBlock = h)
                => Loaded(start_votes', vote_results', h)
          /\ (Loaded(start_votes, vote_results, h) /\ reply'.cmd # "startvote")
                => Loaded(start_votes', vote_results', h)
          /\ (/\ Loaded(start_votes, vote_results, h)
              /\ reply'.cmd = "tokeninventory"
              /\ reply'.info.bestBlock <= h)
                => reply'.err # ErrRecordNotFound]_vars

\* token-inventory at height 1 has succeeded and lists a vote that ended at
\* 1 by its vote_results row, while a vote that ends at 2 is active
C27_Witness ==
    /\ reply.cmd = "tokeninventory"
    /\ reply.err = ErrNone
    /\ reply.info.bestBlock = 1
    /\ Len(reply.payload.approved) + Len(reply.payload.rejected) > 0
    /\ Len(reply.payload.active) > 0

\* after a load-vote-results gave one vote its row, a start-vote of a vote
\* that ended makes token-inventory return the record-not-found error again
InventoryFailsAgain ==
    /\ reply.cmd = "tokeninventory"
    /\ reply.err = ErrRecordNotFound
    /\ Rows(vote_results) # {}
    /\ ~Loaded(start_votes, vote_results, reply.info.bestBlock)

-----------------------------------------------------------------------------
(* The buckets of token-inventory *)

\* the end height of the start vote of a token
EndHeightOf(token) ==
    LET s == CHOOSE x \in Where(start_votes, "token", token) : TRUE IN s.endHeight

\* the bucket lists tokens with a start vote in descending end height
DescendingEndHeight(q) ==
    /\ \A i \in DOMAIN q : HasKey(start_votes, "token", q[i])
    /\ \A i, j \in DOMAIN q : i < j => EndHeightOf(q[i]) >= EndHeightOf(q[j])

\* C28: when token-inventory with the height h succeeds, active lists
\* exactly the tokens whose start vote ends after h, approved exactly the
\* tokens with a vote_results row that is approved, rejected exactly those
\* with a row that is not, each in descending end height, and every token
\* with a start vote is in exactly one of the three
C28_VoteBuckets ==
    InventorySucceeded =>
       LET h        == reply.info.bestBlock
           active   == reply.payload.active
           approved == reply.payload.approved
           rejected == reply.payload.rejected
       IN /\ Range(active) = {s.token : s \in {x \in Rows(start_votes) :
                                                   x.endHeight > h}}
          /\ Range(approved) = {r.token : r \in {x \in Rows(vote_results) :
                                                     x.approved}}
          /\ Range(rejected) = {r.token : r \in {x \in Rows(vote_results) :
                                                     ~x.approved}}
          /\ DescendingEndHeight(active)
          /\ DescendingEndHeight(approved)
          /\ DescendingEndHeight(rejected)
          /\ \A s \in Rows(start_votes) :
                Cardinality({q \in {active, approved, rejected} :
                                 s.token \in Range(q)}) = 1

-----------------------------------------------------------------------------
(* The record buckets of token-inventory, on records of any history: the    *)
(* cache stores the versions and the statuses the backend sends.            *)

RecordStatuses == {RecordStatusPublic, RecordStatusArchived}

NextArchive ==
    \/ \E t \in Tokens, st \in RecordStatuses, ts \in 1..2 : RecordNew(t, st, ts)
    \/ \E t \in Tokens, st \in RecordStatuses, ts \in 1..2 : RecordUpdate(t, st, ts)
    \/ \E t \in Tokens, st \in RecordStatuses : RecordUpdateStatus(t, st)
    \/ CmdStartVote(StartVoteCmd("aa", 50, 50), StartVoteReply(<<"k1", "k2">>, "2"))
    \/ CmdTokenInventory(1)

SpecArchive == InitEmpty /\ [][NextArchive]_vars

\* the tokens whose latest record version has the status
LatestWithStatus(status) ==
    {t \in Tokens : \E r \in LatestRecord(t) : r.status = status}

\* the bucket lists each of its tokens once, in descending timestamp of the
\* latest record version
DescendingTimestamp(q) ==
    /\ Cardinality(Range(q)) = Len(q)
    /\ \A i, j \in DOMAIN q :
          i < j => \A a \in LatestRecord(q[i]), b \in LatestRecord(q[j]) :
                      a.timestamp >= b.timestamp

\* C29: when token-inventory succeeds, pre lists exactly the tokens whose
\* latest record version is public and that have no start vote, abandoned
\* exactly the tokens whose latest record version is archived, each token
\* once and in descending timestamp; a token with an archived older version
\* and a latest version that is not archived is not in abandoned
C29_RecordBuckets ==
    InventorySucceeded =>
       /\ Range(reply.payload.pre)
             = {t \in LatestWithStatus(RecordStatusPublic) :
                   ~HasKey(start_votes, "token", t)}
       /\ Range(reply.payload.abandoned) = LatestWithStatus(RecordStatusArchived)
       /\ DescendingTimestamp(reply.payload.pre)
       /\ DescendingTimestamp(reply.payload.abandoned)

-----------------------------------------------------------------------------
(* The order of the steps of Build *)

\* the kinds of rows of the replay, in the order of the loops of build
ReplayKinds == <<"comment", "like", "authorize", "start", "cast">>

\* the entries of each kind in the snapshot
ReplayCounts(ir) ==
    <<Len(ir.comments), Len(ir.likeComments), Len(ir.authorizeVotes),
      Len(ir.startVoteTuples), Len(ir.castVotes)>>

\* the entries of the kinds before the k-th
CountBefore(ir, k) ==
    SumOver(1..(k - 1), [j \in 1..5 |-> ReplayCounts(ir)[j]])

\* the loop the i-th turn of the replay belongs to
LoopOf(ir, i) ==
    CHOOSE k \in 1..5 : CountBefore(ir, k) < i /\ i <= CountBefore(ir, k + 1)

\* the tables of the replay in the order of the loops
ReplayedTables ==
    <<comments, comment_likes, authorize_votes, start_votes, cast_votes>>

\* C30: Build goes from its drop to its create to its replay and in no other
\* order; the drop leaves every table of the plugin empty and no version
\* record, the create writes the version record and no row; the i-th insert
\* of the replay is a row of the loop the i-th entry of the snapshot belongs
\* to (comments, likes, authorize votes, start votes, cast votes), it writes
\* the table of that loop only, and the tables of the later loops are still
\* empty; a step that fails returns the error and ends the Build
C30_BuildOrder ==
    [][/\ bld'.pc # bld.pc
             => \/ bld'.pc = "idle"
                \/ <<bld.pc, bld'.pc>> \in {<<"idle", "drop">>, <<"drop", "create">>,
                                            <<"create", "replay">>}
       /\ (bld.pc = "drop" /\ bld'.pc = "create")
             => /\ \A k \in 1..7 : plugin_tables'[k] = EmptyBag
                /\ ~HasKey(version_records', "id", bitumID)
       /\ (bld.pc = "create" /\ bld'.pc = "replay")
             => /\ plugin_tables' = plugin_tables
                /\ CheckVersion(version_records') = ErrNone
       /\ (bld.pc = "replay" /\ bld'.pc = "replay" /\ bld'.n # bld.n)
             => LET i == bld.n + 1
                    k == LoopOf(bld.ir, i)
                IN /\ bld'.n = i
                   /\ bld.ops[i].kind = ReplayKinds[k]
                   /\ ReplayedTables'[k] = Insert(
                          IF k = 3
                          THEN [x \in {y \in Rows(authorize_votes) :
                                          y.key # bld.ops[i].row.key}
                                   |-> CopiesIn(x, authorize_votes)]
                          ELSE ReplayedTables[k],
                          bld.ops[i].row)
                   /\ \A j \in 1..5 : j # k => ReplayedTables'[j] = ReplayedTables[j]
                   /\ \A j \in 1..5 : j > k => ReplayedTables'[j] = EmptyBag
                   /\ <<vote_results', vote_option_results'>>
                         = <<vote_results, vote_option_results>>
       /\ (/\ bld.pc # "idle"
           /\ reply' # reply
           /\ reply'.cmd = "build"
           /\ reply'.err # ErrNone)
             => bld' = BldIdle]_vars

\* Build has returned nil for the snapshot of the vote: its comment, its
\* authorize vote, its start vote and its cast vote are stored
C30_Witness ==
    /\ reply.cmd = "build"
    /\ reply.err = ErrNone
    /\ reply.info.ir = SnapshotVote
    /\ reply.info.n = Len(ReplayOps(SnapshotVote))
    /\ \A k \in {1, 3, 4, 5} : Rows(ReplayedTables[k]) # {}

\* C31: a Build whose build failed never returns an error over a version
\* record that is still stored: every step that ends a Build after build
\* began and did not succeed either halts the process (panic, nothing is
\* returned to the caller) or leaves the plugin no version record
C31_FailedBuildHaltsOrDeletes ==
    [][(/\ bld.pc \in {"drop", "create", "replay"}
        /\ bld'.pc = "idle"
        /\ reply'.cmd = "build"
        /\ reply'.err # ErrNone)
       => \/ /\ reply'.err = Panic
             /\ version_records' = version_records
          \/ /\ ~HasKey(version_records', "id", bitumID)
             /\ CheckVersion(version_records') = ErrNoVersionRecord]_vars

\* Build has halted in the middle of the replay: the version record of the
\* expected version is stored over a cache that holds the comment of the
\* snapshot and not its cast vote
C31_Witness ==
    /\ bld.pc = "idle"
    /\ reply.cmd = "build"
    /\ reply.err = Panic
    /\ reply.info.ir = SnapshotVote
    /\ CheckVersion(version_records) = ErrNone
    /\ Rows(comments) # {}
    /\ Rows(cast_votes) = {}

\* C32: after a Build has failed on a snapshot and left the cache with only
\* part of it, the next call of Setup, CheckVersion or Exec leaves a store
\* on which CheckVersion returns an error
C32_FailedBuildStaysDetected ==
    [][(/\ bld.pc = "idle"
        /\ reply.cmd = "build"
        /\ reply.err \notin {ErrNone, Panic}
        /\ ~IsGarbage(reply.info.ir)
        /\ ~CacheHolds(reply.info.ir)
        /\ reply'.cmd # "build")
       => CheckVersion(version_records') # ErrNone]_vars

\* C33: for a token with a start vote and no vote_results row, the votes
\* newVoteResults tallies for each option are the votes vote-summary counts
\* for that option on the same cast_votes rows; and when no ballot came
\* between the tally of a load-vote-results command and its insert, the
\* step of the command that stores the row leaves the tallies of every
\* vote-summary reply as they were
C33_SummaryEqualsStoredTally ==
    [][\A p \in LvrProcs :
          /\ (lvr[p].pc = "loop" /\ lvr'[p].pc = "create")
                => \A sv \in Where(start_votes, "token", lvr'[p].row.token) :
                      LET stored  == lvr'[p].row.results
                          counted == CountedResults(sv)
                      IN ~HasKey(vote_results, "token", sv.token)
                         => /\ Len(stored) = Len(counted)
                            /\ \A i \in DOMAIN stored :
                                  /\ stored[i].option.id = counted[i].id
                                  /\ stored[i].option.bits = counted[i].bits
                                  /\ stored[i].votes = counted[i].votes
          /\ \A t \in Tokens :
                (/\ lvr[p].pc = "create"
                 /\ lvr'[p] # lvr[p]
                 /\ lvr[p].row.token = t
                 /\ ~HasKey(vote_results, "token", t)
                 /\ HasKey(vote_results', "token", t)
                 /\ \E sv \in Where(start_votes, "token", t) :
                       lvr[p].row.results = VoteOptionResults(sv, cast_votes))
                   => {TalliesOf(r) : r \in VoteSummary(t)'}
                          = {TalliesOf(r) : r \in VoteSummary(t)}]_vars

\* load-vote-results has stored the row of a token whose record, authorize
\* vote and cast vote are in the cache: one option has a vote and vote-summary
\* reports it
C33_Witness ==
    /\ reply.cmd = "loadvoteresults"
    /\ reply.err = ErrNone
    /\ HasKey(vote_results, "token", "aa")
    /\ \E r \in Where(vote_option_results, "token", "aa") : r.votes > 0
    /\ \E r \in VoteSummary("aa") :
          /\ r.err = ErrNone
          /\ \E i \in DOMAIN r.payload.results : r.payload.results[i].votes > 0

-----------------------------------------------------------------------------
(* One record through its versions: authorize votes and revocations of      *)
(* either version, the start of the vote, ballots and vote-summary          *)

NextVersions ==
    \/ RecordNew("aa", RecordStatusPublic, 1)
    \/ RecordUpdate("aa", RecordStatusPublic, 1)
    \/ NextAuthorize(1, {"aa"}, AuthVoteActions, {"1", "2"}, "r1")
    \/ CmdStartVote(StartVoteCmd("aa", 50, 50), StartVoteReply(<<"k1", "k2">>, "1"))
    \/ NextBallot(1, BallotsOfOne({"aa"}))
    \/ CmdVoteSummary("aa")

SpecVersions == InitEmpty /\ [][NextVersions]_vars

\* the reply of vote-summary that holds nothing of a vote
NoVoteSummary(authorized) ==
    [authorized          |-> authorized,
     endHeight           |-> "",
     eligibleTicketCount |-> 0,
     quorumPercentage    |-> 0,
     passPercentage      |-> 0,
     results             |-> <<>>]

\* C34: vote-summary for a token with a record returns nil; when the latest
\* version of the record has no authorize vote the reply is authorized =
\* false, the empty end height, zero thresholds and no results, whatever
\* start vote and cast votes the token has; when it has one and the token has
\* no start vote the reply is the flag of that authorize vote, the empty end
\* height and no results
C34_SummaryWithoutVote ==
    (reply.cmd = "votesummary" /\ LatestRecord(reply.info.token) # {})
       => /\ reply.err = ErrNone
          /\ \A r \in LatestRecord(reply.info.token) :
                LET avs == Where(authorize_votes, "key",
                                 reply.info.token \o FormatUint10(r.version))
                IN /\ avs = {} => reply.payload = NoVoteSummary(FALSE)
                   /\ (avs # {} /\ Where(start_votes, "token", reply.info.token) = {})
                         => \A av \in avs :
                               reply.payload = NoVoteSummary(
                                   av.action = AuthVoteActionAuthorize)

\* vote-summary has answered for a token whose vote was authorized for
\* version 1, whose record is at version 2, and which has a start vote and a
\* cast vote
C34_Witness ==
    /\ reply.cmd = "votesummary"
    /\ reply.err = ErrNone
    /\ \E r \in LatestRecord("aa") : r.version = 2
    /\ Where(authorize_votes, "key", "aa2") = {}
    /\ \E av \in Where(authorize_votes, "key", "aa1") :
          av.action = AuthVoteActionAuthorize
    /\ Where(start_votes, "token", "aa") # {}
    /\ Rows(cast_votes) # {}
    /\ reply.payload.endHeight = ""
    /\ reply.payload.results = <<>>

-----------------------------------------------------------------------------
(* The in-memory implementation under its lock: a handler is a process that *)
(* decodes its payloads, takes the lock, reads and writes the maps one      *)
(* statement at a time, and gives the lock back when it returns             *)

\* a mutant: voteDetails takes the shared lock
TcLockOfReaders(cmd) ==
    IF cmd \in {"getcomments", "votedetails"} THEN "shared" ELSE "exclusive"

\* the lock of a handler: c.RLock() in getComments, c.Lock() in
\* authorizeVote, startVote and voteDetails
TcLockOf(cmd) ==
    IF cmd = "getcomments" THEN "shared" ELSE "exclusive"

\* the statements of a handler on the maps, in their order, as the maps
\* stand when the handler has the lock
TcOps(cmd, in, m) ==
    IF cmd = "getcomments"
    THEN <<[kind |-> "read", do |-> "comments"]>>
    ELSE IF cmd = "authorizevote"
    THEN <<[kind |-> "read", do |-> "ok"]>>
         \o (IF in.cmdPayload.token \in DOMAIN m.authorizeVotes THEN <<>>
             ELSE <<[kind |-> "write", do |-> "make"]>>)
         \o <<[kind |-> "write", do |-> "authorizeVotes"]>>
    ELSE IF cmd = "startvote"
    THEN <<[kind |-> "write", do |-> "startVotes"],
           [kind |-> "write", do |-> "startVoteReplies"]>>
    ELSE <<[kind |-> "read", do |-> "record"]>>
         \o (IF LatestRecord(in.cmdPayload.token) = {} THEN <<>>
             ELSE <<[kind |-> "read", do |-> "ok"]>>
                  \o (IF in.cmdPayload.token \in DOMAIN m.authorizeVotes THEN <<>>
                      ELSE <<[kind |-> "write", do |-> "make"]>>)
                  \o <<[kind |-> "read", do |-> "authorizeVotes"],
                       [kind |-> "read", do |-> "startVotes"],
                       [kind |-> "read", do |-> "startVoteReplies"]>>)

\* the maps after one statement
TcApply(m, op, in) ==
    IF op.kind = "read" THEN m
    ELSE IF op.do = "make"
    THEN [m EXCEPT !.authorizeVotes =
            IF in.cmdPayload.token \in DOMAIN @ THEN @
            ELSE MapPut(@, in.cmdPayload.token, <<>>)]
    ELSE IF op.do = "authorizeVotes"
    THEN [m EXCEPT !.authorizeVotes =
            MemPutAuthorizeVote(@, in.cmdPayload, in.replyPayload)]
    ELSE IF op.do = "startVotes"
    THEN [m EXCEPT !.startVotes = MapPut(@, in.cmdPayload.token, in.cmdPayload)]
    ELSE [m EXCEPT !.startVoteReplies =
            MapPut(@, in.cmdPayload.token, in.replyPayload)]

\* what the handler returns when its statements are done
TcReply(cmd, in, m) ==
    LET token == in.cmdPayload.token
        rs    == LatestRecord(token)
        r     == CHOOSE x \in rs : TRUE
    IN IF cmd = "getcomments"
       THEN ReplyInfo("mem.getcomments", ErrNone, [comments |-> <<>>],
                      [token |-> token])
       ELSE IF cmd \in {"authorizevote", "startvote"}
       THEN ReplyInfo("mem." \o cmd, ErrNone, in.replyPayload, [token |-> token])
       ELSE IF rs = {}
       THEN ReplyInfo("mem.votedetails", ErrRecordNotFound, "", [token |-> token])
       ELSE ReplyInfo("mem.votedetails", ErrNone,
               [authorizeVote  |->
                    MapGet(MapGet(m.authorizeVotes, token, <<>>),
                           FormatUint10(r.version),
                           convertAuthorizeVoteToBitum(ZeroAuthorizeVote)),
                startVote      |->
                    MapGet(m.startVotes, token,
                           convertStartVoteToBitum(ZeroStartVote).startVote),
                startVoteReply |->
                    MapGet(m.startVoteReplies, token, StartVoteReply(<<>>, ""))],
               [token |-> token])

\* bitumExec routes the command; the handler decodes its payloads, and
\* returns the error when one does not decode
TcBegin(p, cmd, cmdPayload, replyPayload) ==
    /\ tc.h[p].pc = "idle"
    /\ cmd \in MemCommands
    /\ IF Decodes(cmdPayload)
          /\ (cmd \in {"authorizevote", "startvote"} => Decodes(replyPayload))
       THEN /\ tc' = [tc EXCEPT !.h[p] =
                        [pc |-> "lock", cmd |-> cmd, ops |-> <<>>,
                         in |-> [cmdPayload |-> cmdPayload,
                                 replyPayload |-> replyPayload]]]
            /\ reply' = NoReply
       ELSE /\ tc' = tc
            /\ reply' = ReplyInfo("mem." \o cmd, ErrDecode, "", Garbage)
    /\ UNCHANGED <<tables, lvr, avp, nbp, mem, version_records, created, bld, udb>>

\* c.RLock() returns when no handler holds the lock exclusively, c.Lock()
\* when no handler holds it at all
TcLock(p) ==
    /\ tc.h[p].pc = "lock"
    /\ tc.writer = 0
    /\ IF TcLockOf(tc.h[p].cmd) = "shared"
       THEN tc' = [tc EXCEPT !.readers = @ \cup {p},
                             !.h[p].pc = "held",
                             !.h[p].ops = TcOps(tc.h[p].cmd, tc.h[p].in, mem)]
       ELSE /\ tc.readers = {}
            /\ tc' = [tc EXCEPT !.writer = p,
                                !.h[p].pc = "held",
                                !.h[p].ops = TcOps(tc.h[p].cmd, tc.h[p].in, mem)]
    /\ reply' = NoReply
    /\ UNCHANGED <<tables, lvr, avp, nbp, mem, version_records, created, bld, udb>>

\* the next statement of the handler on the maps
TcAccess(p) ==
    /\ tc.h[p].pc = "held"
    /\ tc.h[p].ops # <<>>
    /\ mem' = TcApply(mem, Head(tc.h[p].ops), tc.h[p].in)
    /\ tc' = [tc EXCEPT !.h[p].ops = Tail(@)]
    /\ reply' = NoReply
    /\ UNCHANGED <<tables, lvr, avp, nbp, version_records, created, bld, udb>>

\* the handler returns: the deferred RUnlock or Unlock runs
TcReturn(p) ==
    /\ tc.h[p].pc = "held"
    /\ tc.h[p].ops = <<>>
    /\ tc' = [tc EXCEPT !.readers = @ \ {p},
                        !.writer = IF @ = p THEN 0 ELSE @,
                        !.h[p] = TcHandlerIdle]
    /\ reply' = TcReply(tc.h[p].cmd, tc.h[p].in, mem)
    /\ UNCHANGED <<tables, lvr, avp, nbp, mem, version_records, created, bld, udb>>

\* the commands of the handlers: the four of the switch for one token, with
\* payloads that decode and one that does not
TcInputs ==
    {ExecInput("getcomments", [token |-> "aa"], NoPayload),
     ExecInput("authorizevote", [token |-> "aa", action |-> AuthVoteActionAuthorize],
               [recordVersion |-> "1", receipt |-> "r1"]),
     ExecInput("startvote", StartVoteCmd("aa", 50, 50),
               StartVoteReply(<<"k1", "k2">>, "1")),
     ExecInput("votedetails", [token |-> "aa"], NoPayload),
     ExecInput("votedetails", Garbage, NoPayload)}

NextLock ==
    \/ RecordNew("aa", RecordStatusPublic, 1)
    \/ \E p \in TcProcs, i \in TcInputs :
          TcBegin(p, i.cmd, i.cmdPayload, i.replyPayload)
    \/ \E p \in TcProcs : TcLock(p)
    \/ \E p \in TcProcs : TcAccess(p)
    \/ \E p \in TcProcs : TcReturn(p)

SpecLock == InitEmpty /\ [][NextLock]_vars

\* the handler p is between its lock and its unlock
TcHeld(p) == tc.h[p].pc = "held"

\* the handler p has a statement that writes a map still to run
TcWrites(p) == \E i \in DOMAIN tc.h[p].ops : tc.h[p].ops[i].kind = "write"

\* C35: a handler that is at its statements on the maps holds the lock,
\* shared or exclusive, and holds it exclusively when a write is among them;
\* no two handlers are at their statements when one of them has a write to
\* run; and every step that changes a map is the step of the handler that
\* holds the lock exclusively
C35_MapsUnderLock ==
    [][/\ \A p \in TcProcs :
             TcHeld(p) => /\ p \in tc.readers \/ tc.writer = p
                          /\ TcWrites(p) => tc.writer = p
       /\ \A p, q \in TcProcs :
             (p # q /\ TcHeld(p) /\ TcHeld(q)) => ~TcWrites(p) /\ ~TcWrites(q)
       /\ mem' # mem =>
             \E p \in TcProcs : /\ tc.writer = p
                                /\ tc'.writer = p
                                /\ tc.h[p].ops # tc'.h[p].ops
                                /\ tc.readers = {}]_vars

\* voteDetails is about to make the inner map of a token while another
\* handler waits for the lock
C35_Witness ==
    \E p, q \in TcProcs :
       /\ p # q
       /\ tc.h[p].cmd = "votedetails"
       /\ TcHeld(p)
       /\ tc.h[p].ops # <<>>
       /\ Head(tc.h[p].ops).do = "make"
       /\ tc.writer = p
       /\ tc.h[q].pc = "lock"
       /\ tc.h[q].cmd = "getcomments"

-----------------------------------------------------------------------------
(* The two implementations in step: each command goes to the in-memory      *)
(* handler and, before that handler returns, to the handler of the store,   *)
(* with the same payloads; the store answers every statement                *)

\* no command is running in either implementation
BothIdle == tc.h[1].pc = "idle" /\ avp[1].pc = "idle"

\* the in-memory handler is at its return and the store has not had the
\* command yet
BothStoreTurn ==
    /\ tc.h[1].pc = "held"
    /\ tc.h[1].ops = <<>>
    /\ avp[1].pc = "idle"
    /\ reply = NoReply

BothInputs ==
    {ExecInput("authorizevote", [token |-> "aa", action |-> a],
               [recordVersion |-> "1", receipt |-> "r1"]) : a \in AuthVoteActions}
    \cup StartVoteInputs
    \cup {ExecInput("votedetails", [token |-> "aa"], NoPayload)}

NextBoth ==
    \/ BothIdle /\ RecordNew("aa", RecordStatusPublic, 1)
    \/ \E i \in BothInputs :
          /\ BothIdle
          /\ LatestRecord(i.cmdPayload.token) # {}
          /\ TcBegin(1, i.cmd, i.cmdPayload, i.replyPayload)
    \/ TcLock(1)
    \/ TcAccess(1)
    \/ /\ BothStoreTurn
       /\ tc.h[1].cmd = "startvote"
       /\ CmdStartVote(tc.h[1].in.cmdPayload, tc.h[1].in.replyPayload)
    \/ /\ BothStoreTurn
       /\ tc.h[1].cmd = "authorizevote"
       /\ AuthorizeVoteBegin(1, tc.h[1].in.cmdPayload, tc.h[1].in.replyPayload)
    \/ AuthorizeVoteWrite(1)
    \/ AuthorizeVoteCommit(1)
    \/ /\ BothStoreTurn
       /\ tc.h[1].cmd = "votedetails"
       /\ ExecReads(VoteDetails(tc.h[1].in.cmdPayload.token))
    \/ /\ reply.cmd = tc.h[1].cmd
       /\ avp[1].pc = "idle"
       /\ TcReturn(1)

SpecBoth == InitEmpty /\ [][NextBoth]_vars

\* C36: when the in-memory handler returns after the handler of the store
\* returned for the same command, both return nil or both return an error;
\* and for vote-details on a token that has a start vote, both return the
\* same authorize vote, start vote and start-vote reply
C36_ImplementationsAgree ==
    [][(/\ tc.h[1].pc = "held"
        /\ tc'.h[1].pc = "idle"
        /\ reply.cmd = tc.h[1].cmd)
       => /\ (reply.err = ErrNone) <=> (reply'.err = ErrNone)
          /\ (/\ reply.cmd = "votedetails"
              /\ reply.err = ErrNone
              /\ reply'.err = ErrNone
              /\ HasKey(start_votes, "token", reply.info.token))
                => reply'.payload = reply.payload]_vars

-----------------------------------------------------------------------------
(* The user database adapter of politeiawww                                 *)
(* (politeiawww/user/cockroachdb/cockroachdb.go): one sync.RWMutex, the     *)
(* shutdown flag, the encryption key and the database handle; the users     *)
(* table and the key-value table.  A method is a process whose steps are    *)
(* its shutdown check, its uses of the key under the shared lock and its    *)
(* statements on the database.  A blob is the key it was sealed with and    *)
(* the user it holds.                                                       *)

MaxUsers == 2         \* users the table holds

UserIDs == 1..MaxUsers

ErrShutdown == "user.ErrShutdown"
ErrUserNotFound == "user.ErrUserNotFound"
ErrDecrypt == "decrypt error"
ErrKey == "key error"

keyPaywallAddressIndex == "paywalladdressindex"

\* the methods that read the shutdown flag under the shared lock and give
\* the lock back before they go on
UdbMethods == {"SetPaywallAddressIndex", "UserNew", "UserGetByUsername",
               "UserGetById", "UserUpdate", "AllUsers", "InsertUser"}

\* sbox.Encrypt(version, key, b)
sboxEncrypt(key, b) == [key |-> key, data |-> b]

\* sbox.Decrypt(key, blob) opens a blob sealed with the same key
sboxDecrypts(key, blob) == blob.key = key

\* a method returns: its call is over
UdbReturns(p, err, payload) ==
    /\ reply' = ReplyInfo("udb." \o udb.call[p].op, err, payload,
                          [proc |-> p, call |-> udb.call[p]])
    /\ UNCHANGED <<tables, lvr, avp, nbp, mem, version_records, created, bld, tc>>

\* a method goes on to its next statement
UdbGoesOn ==
    /\ reply' = NoReply
    /\ UNCHANGED <<tables, lvr, avp, nbp, mem, version_records, created, bld, tc>>

\* the first statement of a method after its shutdown check
UdbFirst(op) ==
    IF op \in {"UserUpdate", "InsertUser"} THEN "encrypt"
    ELSE IF op = "SetPaywallAddressIndex" THEN "write"
    ELSE "find"

\* c.RLock(); shutdown := c.shutdown; c.RUnlock(), and the return of
\* user.ErrShutdown when the flag is set; UserNew begins its transaction
UdbBegin(p, op, u) ==
    /\ udb.call[p].pc = "idle"
    /\ op \in UdbMethods
    /\ udb.writer = 0
    /\ IF udb.shutdown
       THEN /\ udb' = udb
            /\ reply' = ReplyInfo("udb." \o op, ErrShutdown, "",
                                  [proc |-> p, call |-> [pc |-> "idle", op |-> op]])
            /\ UNCHANGED <<tables, lvr, avp, nbp, mem, version_records, created,
                           bld, tc>>
       ELSE /\ udb' = [udb EXCEPT !.call[p] =
                         [pc |-> UdbFirst(op), op |-> op, u |-> u, eb |-> <<>>,
                          seen |-> <<>>, found |-> <<>>]]
            /\ UdbGoesOn

\* the ids no stored user and no running call has
FreeIDs ==
    {i \in UserIDs : /\ i \notin DOMAIN udb.users
                     /\ \A q \in UdbProcs :
                           udb.call[q].pc # "idle" /\ udb.call[q].op = "UserNew"
                              => udb.call[q].u.id # i}

\* index = binary.LittleEndian.Uint64(kv.Value) + 1, 0 when the key-value
\* table has no paywall address index
NextIndex(kv) ==
    IF keyPaywallAddressIndex \in DOMAIN kv THEN kv[keyPaywallAddressIndex] + 1
    ELSE 0

\* the lookup of a method: userNew finds the paywall address index and sets
\* the index and the id of the user; UserGetByUsername and UserGetById find
\* the row of the user; AllUsers finds every row.  A closed database returns
\* an error
UdbFind(p) ==
    LET c == udb.call[p] IN
    /\ c.pc = "find"
    /\ IF ~udb.open
       THEN /\ udb' = [udb EXCEPT !.call[p] = UdbCallIdle]
            /\ UdbReturns(p, ErrStore, "")
       ELSE IF c.op = "UserNew"
       THEN /\ udb' = [udb EXCEPT !.call[p] =
                         [c EXCEPT !.pc = "encrypt",
                                   !.seen = udb.kv,
                                   !.u = [id |-> c.u.id,
                                          paywallAddressIndex |-> NextIndex(udb.kv),
                                          rev |-> c.u.rev]]]
            /\ UdbGoesOn
       ELSE IF c.op = "AllUsers"
       THEN /\ udb' = [udb EXCEPT !.call[p] =
                         [c EXCEPT !.pc = "decrypt",
                                   !.found = {udb.users[i].blob : i \in DOMAIN udb.users}]]
            /\ UdbGoesOn
       ELSE IF c.u.id \in DOMAIN udb.users
       THEN /\ udb' = [udb EXCEPT !.call[p] =
                         [c EXCEPT !.pc = "decrypt",
                                   !.found = {udb.users[c.u.id].blob}]]
            /\ UdbGoesOn
       ELSE /\ udb' = [udb EXCEPT !.call[p] = UdbCallIdle]
            /\ UdbReturns(p, ErrUserNotFound, "")

\* c.encrypt: the key is read under the shared lock and the user sealed with
\* it; sbox dereferences the key, which Close has set to nil
UdbEncrypt(p) ==
    LET c == udb.call[p] IN
    /\ c.pc = "encrypt"
    /\ udb.writer = 0
    /\ IF udb.encryptionKey = "nil"
       THEN /\ udb' = [udb EXCEPT !.call[p] = UdbCallIdle]
            /\ UdbReturns(p, Panic, "")
       ELSE /\ udb' = [udb EXCEPT !.call[p] =
                         [c EXCEPT !.pc = "write",
                                   !.eb = sboxEncrypt(udb.encryptionKey, c.u)]]
            /\ UdbGoesOn

\* c.decrypt on the blobs found, each under the shared lock, and the return
\* of the users they hold
UdbDecrypt(p) ==
    LET c == udb.call[p] IN
    /\ c.pc = "decrypt"
    /\ udb.writer = 0
    /\ udb' = [udb EXCEPT !.call[p] = UdbCallIdle]
    /\ IF c.found = {} THEN UdbReturns(p, ErrNone, {})
       ELSE IF udb.encryptionKey = "nil" THEN UdbReturns(p, Panic, "")
       ELSE IF \E b \in c.found : ~sboxDecrypts(udb.encryptionKey, b)
       THEN UdbReturns(p, ErrDecrypt, "")
       ELSE UdbReturns(p, ErrNone, {b.data : b \in c.found})

\* db.Save(&kv) of setPaywallAddressIndex
SetIndex(kv, index) == MapPut(kv, keyPaywallAddressIndex, index)

\* a mutant: the transaction of UserNew commits whatever other transactions
\* did to the paywall address index it found
UdbWrittenUnisolated(c, users, kv) ==
    [users |-> MapPut(users, c.u.id, [blob |-> c.eb]),
     kv    |-> IF c.op = "UserNew" THEN SetIndex(kv, c.u.paywallAddressIndex) ELSE kv,
     ok    |-> c.u.id \notin DOMAIN users]

\* the tables after the write of a method, and whether the store takes it:
\* the Create of a row whose id is stored is refused, Save replaces the row,
\* and the transaction of UserNew commits when no other transaction changed
\* the paywall address index it found
UdbWritten(c, users, kv) ==
    IF c.op = "SetPaywallAddressIndex"
    THEN [users |-> users, kv |-> SetIndex(kv, c.u.paywallAddressIndex), ok |-> TRUE]
    ELSE IF c.op = "UserUpdate"
    THEN [users |-> MapPut(users, c.u.id, [blob |-> c.eb]), kv |-> kv, ok |-> TRUE]
    ELSE IF c.op = "InsertUser"
    THEN [users |-> MapPut(users, c.u.id, [blob |-> c.eb]), kv |-> kv,
          ok    |-> c.u.id \notin DOMAIN users]
    ELSE [users |-> MapPut(users, c.u.id, [blob |-> c.eb]),
          kv    |-> SetIndex(kv, c.u.paywallAddressIndex),
          ok    |-> c.seen = kv /\ c.u.id \notin DOMAIN users]

\* the write of a method and its return; a closed database returns an error
UdbWrite(p) ==
    LET c   == udb.call[p]
        got == UdbWritten(c, udb.users, udb.kv)
    IN /\ c.pc = "write"
       /\ IF udb.open /\ got.ok
          THEN /\ udb' = [udb EXCEPT !.users = got.users, !.kv = got.kv,
                                     !.call[p] = UdbCallIdle]
               /\ UdbReturns(p, ErrNone, "")
          ELSE /\ udb' = [udb EXCEPT !.call[p] = UdbCallIdle]
               /\ UdbReturns(p, ErrStore, "")

\* a statement of the method fails in the store: the transaction of UserNew
\* is rolled back, the error is returned
UdbStoreFails(p) ==
    /\ udb.call[p].pc \in {"find", "write"}
    /\ udb' = [udb EXCEPT !.call[p] = UdbCallIdle]
    /\ UdbReturns(p, ErrStore, "")

\* RotateKeys up to the lookup of rotateKeys: c.Lock(), the shutdown check,
\* loadEncryptionKey, the comparison of the keys, and tx.Find(&users)
RotateKeysBegin(p, newKey) ==
    LET c == [pc |-> "rotate", op |-> "RotateKeys", newKey |-> newKey,
              seen |-> udb.users]
        fails(err) == /\ udb' = udb
                      /\ reply' = ReplyInfo("udb.RotateKeys", err, "",
                                            [proc |-> p, call |-> c])
                      /\ UNCHANGED <<tables, lvr, avp, nbp, mem, version_records,
                                     created, bld, tc>>
    IN /\ udb.call[p].pc = "idle"
       /\ udb.writer = 0
       /\ udb.readers = {}
       /\ IF udb.shutdown THEN fails(ErrShutdown)
          ELSE IF newKey = "bad" THEN fails(ErrKey)
          ELSE IF newKey = udb.encryptionKey THEN fails(ErrKey)
          ELSE IF ~udb.open THEN fails(ErrStore)
          ELSE /\ udb' = [udb EXCEPT !.writer = p, !.call[p] = c]
               /\ UdbGoesOn

\* the rows of rotateKeys: each blob opened with the old key and sealed with
\* the new one
Rotated(users, newKey) ==
    [i \in DOMAIN users |-> [blob |-> sboxEncrypt(newKey, users[i].blob.data)]]

\* the loop of rotateKeys, tx.Commit() and c.encryptionKey = newKey; a blob
\* the old key does not open, or a row another transaction changed since the
\* lookup, ends the call with an error and the transaction rolled back
RotateKeysCommit(p) ==
    LET c == udb.call[p] IN
    /\ c.pc = "rotate"
    /\ IF \E i \in DOMAIN c.seen : ~sboxDecrypts(udb.encryptionKey, c.seen[i].blob)
       THEN /\ udb' = [udb EXCEPT !.writer = 0, !.call[p] = UdbCallIdle]
            /\ UdbReturns(p, ErrDecrypt, "")
       ELSE IF udb.users # c.seen \/ ~udb.open
       THEN /\ udb' = [udb EXCEPT !.writer = 0, !.call[p] = UdbCallIdle]
            /\ UdbReturns(p, ErrStore, "")
       ELSE /\ udb' = [udb EXCEPT !.users = Rotated(c.seen, c.newKey),
                                  !.encryptionKey = c.newKey,
                                  !.writer = 0,
                                  !.call[p] = UdbCallIdle]
            /\ UdbReturns(p, ErrNone, "")

\* sbox.Encrypt, tx.Save or tx.Commit() fails: tx.Rollback() where the
\* transaction is open, and the return of the error
RotateKeysFails(p) ==
    /\ udb.call[p].pc = "rotate"
    /\ udb' = [udb EXCEPT !.writer = 0, !.call[p] = UdbCallIdle]
    /\ UdbReturns(p, ErrStore, "")

\* Close: under the exclusive lock the key is zeroed and set to nil, the
\* flag is set and the database closed
Close(p) ==
    /\ udb.call[p].pc = "idle"
    /\ udb.writer = 0
    /\ udb.readers = {}
    /\ ~udb.shutdown
    /\ udb' = [udb EXCEPT !.encryptionKey = "nil", !.shutdown = TRUE,
                          !.open = FALSE]
    /\ reply' = ReplyInfo("udb.Close", ErrNone, "",
                          [proc |-> p, call |-> [pc |-> "idle", op |-> "Close"]])
    /\ UNCHANGED <<tables, lvr, avp, nbp, mem, version_records, created, bld, tc>>

\* the users the callers pass: a new user for UserNew, a user of an id with
\* changed content for the other methods
NewUser(id) == [id |-> id, paywallAddressIndex |-> 0, rev |-> 0]

ChangedUser(id) == [id |-> id, paywallAddressIndex |-> 0, rev |-> 1]

\* UserNew for a user whose id uuid.New() is about to make
UserNewCall(p) == \E id \in FreeIDs : UdbBegin(p, "UserNew", NewUser(id))

\* UserUpdate for a stored user whose content the caller changed
UserUpdateCall(p) ==
    \E i \in DOMAIN udb.users :
       UdbBegin(p, "UserUpdate", [udb.users[i].blob.data EXCEPT !.rev = 1])

\* InsertUser for a user with its id
InsertUserCall(p) == \E id \in UserIDs : UdbBegin(p, "InsertUser", ChangedUser(id))

\* every method, and Close, side by side; the store answers every statement
NextShutdown ==
    \E p \in UdbProcs :
       \/ \E op \in {"SetPaywallAddressIndex", "UserGetByUsername", "UserGetById",
                     "AllUsers"} : UdbBegin(p, op, ChangedUser(1))
       \/ UserNewCall(p)
       \/ UserUpdateCall(p)
       \/ InsertUserCall(p)
       \/ UdbFind(p)
       \/ UdbEncrypt(p)
       \/ UdbDecrypt(p)
       \/ UdbWrite(p)
       \/ \E k \in {"k1", "k2", "bad"} : RotateKeysBegin(p, k)
       \/ RotateKeysCommit(p)
       \/ Close(p)

SpecShutdown == InitEmpty /\ [][NextShutdown]_vars

\* the replies of the methods that check the shutdown flag
UdbReplies == {"udb." \o op : op \in UdbMethods \cup {"RotateKeys"}}

\* C37: once Close has run, a method that is called returns the shutdown
\* error; and a method that passed its shutdown check before Close takes no
\* step after it: it neither reads the key nor goes to the database
C37_NothingAfterClose ==
    [][udb.shutdown =>
          \A p \in UdbProcs :
             /\ udb.call[p].pc = "idle" =>
                   /\ udb'.call[p].pc = "idle"
                   /\ (reply'.cmd \in UdbReplies /\ reply'.info.proc = p)
                         => reply'.err = ErrShutdown
             /\ udb.call[p].pc # "idle" => udb'.call[p] = udb.call[p]]_vars

-----------------------------------------------------------------------------
(* RotateKeys beside the methods that store a blob *)

NextRotate ==
    \E p \in UdbProcs :
       \/ UserNewCall(p)
       \/ UserUpdateCall(p)
       \/ InsertUserCall(p)
       \/ UdbFind(p)
       \/ UdbEncrypt(p)
       \/ UdbWrite(p)
       \/ UdbStoreFails(p)
       \/ \E k \in {"k1", "k2", "bad"} : RotateKeysBegin(p, k)
       \/ RotateKeysCommit(p)
       \/ RotateKeysFails(p)

SpecRotate == InitEmpty /\ [][NextRotate]_vars

\* C38: when a step leaves no method running, the key the adapter holds
\* opens the blob of every stored user; and a RotateKeys that returns an
\* error leaves the blobs and the key as they were
C38_BlobsOpenWithCurrentKey ==
    [][/\ (\A p \in UdbProcs : udb'.call[p].pc = "idle")
             => \A i \in DOMAIN udb'.users :
                   sboxDecrypts(udb'.encryptionKey, udb'.users[i].blob)
       /\ (reply'.cmd = "udb.RotateKeys" /\ reply'.err # ErrNone)
             => /\ udb'.users = udb.users
                /\ udb'.encryptionKey = udb.encryptionKey]_vars

-----------------------------------------------------------------------------
(* UserNew beside UserNew *)

NextUserNew ==
    \E p \in UdbProcs :
       \/ UserNewCall(p)
       \/ UdbFind(p)
       \/ UdbEncrypt(p)
       \/ UdbWrite(p)
       \/ UdbStoreFails(p)

SpecUserNew == InitEmpty /\ [][NextUserNew]_vars

\* the paywall address index of a stored user
IndexOf(users, i) == users[i].blob.data.paywallAddressIndex

\* C39: the stored users have pairwise distinct paywall address indices; a
\* UserNew that returns nil stores the index that follows the index stored
\* before it (0 when none was stored), gives it to its user and adds no
\* other row; a UserNew that returns an error leaves the users table and the
\* stored index as they were
C39_PaywallIndexUnique ==
    [][/\ \A i, j \in DOMAIN udb'.users :
             i # j => IndexOf(udb'.users, i) # IndexOf(udb'.users, j)
       /\ (reply'.cmd = "udb.UserNew" /\ reply'.err = ErrNone)
             => /\ udb'.kv = SetIndex(udb.kv, NextIndex(udb.kv))
                /\ DOMAIN udb'.users = DOMAIN udb.users \cup {reply'.info.call.u.id}
                /\ reply'.info.call.u.id \notin DOMAIN udb.users
                /\ IndexOf(udb'.users, reply'.info.call.u.id) = NextIndex(udb.kv)
                /\ \A i \in DOMAIN udb.users : udb'.users[i] = udb.users[i]
       /\ (reply'.cmd = "udb.UserNew" /\ reply'.err # ErrNone)
             => /\ udb'.users = udb.users
                /\ udb'.kv = udb.kv]_vars

\* two calls of UserNew ran side by side: one has stored its user with the
\* index 0, the other found no index either, and its commit was refused
C39_Witness ==
    /\ reply.cmd = "udb.UserNew"
    /\ reply.err = ErrStore
    /\ reply.info.call.pc = "write"
    /\ reply.info.call.seen = <<>>
    /\ reply.info.call.u.paywallAddressIndex = 0
    /\ \E i \in DOMAIN udb.users : IndexOf(udb.users, i) = 0
    /\ udb.kv = SetIndex(<<>>, 0)
    /\ udb.open

====
